---- MODULE Spec2Model ----
(***************************************************************************)
(* The Synacor virtual machine of synacore-rs: the decoder (parse.rs) and  *)
(* the execution engine (machine.rs).                                      *)
(*                                                                         *)
(* Words are u16 values.  Characters are their Unicode scalar values.      *)
(* Machine.memory is a Vec<u16> of fixed length; it is kept here as its    *)
(* length (memory_len) and the finite map of its non-zero cells (memory):  *)
(* a cell outside the map holds 0, and an index at or past memory_len is   *)
(* out of bounds (a Rust panic).                                           *)
(***************************************************************************)
EXTENDS Integers, Sequences, FiniteSets, TLC

\* ------------------------------------------------------------ constants

U15_MAX == 32768
REGISTER_OFFSET == U15_MAX
NUM_REGISTERS == 8

HALT == 0
SET == 1
PUSH == 2
POP == 3
EQ == 4
GT == 5
JMP == 6
JT == 7
JF == 8
ADD == 9
MULT == 10
MOD == 11
AND == 12
OR == 13
NOT == 14
RMEM == 15
WMEM == 16
CALL == 17
RET == 18
OUT == 19
\* IN in parse.rs (IN is a reserved word here)
IN_ == 20
NOOP == 21

\* Widths of the integer types the code computes in.
U16_RANGE == 2 ^ 16
U8_RANGE == 2 ^ 8
U16_BITS == 16

\* Unicode: char holds a scalar value, i.e. any code point up to CHAR_MAX that
\* is not a surrogate.
SURROGATE_LO == 55296
SURROGATE_HI == 57343
CHAR_MAX == 1114111

\* ------------------------------------------------------------ memory (Vec<u16>)

\* The Vec<u16> holding the words of `program` followed by zeros up to `len`.
VecOf(words) ==
    [i \in {j \in 0..(Len(words) - 1) : words[j + 1] # 0} |-> words[i + 1]]

\* memory[i] for an index within the length.
MemGet(mem, i) == IF i \in DOMAIN mem THEN mem[i] ELSE 0

\* memory[i] = v for an index within the length.
MemSet(mem, i, v) ==
    IF v = 0
    THEN [j \in (DOMAIN mem) \ {i} |-> mem[j]]
    ELSE [j \in (DOMAIN mem) \cup {i} |-> IF j = i THEN v ELSE mem[j]]

\* ------------------------------------------------------------ parse.rs

\* enum Token: the opcode's name and its operands (unused operands are 0;
\* Unknown carries the raw word in a).  NoToken is Option::None.
Tok(op, a, b, c) == [op |-> op, a |-> a, b |-> b, c |-> c]
NoToken == Tok("None", 0, 0, 0)

\* The slice &memory[start..]: input.get(i) is the word at start + i, or -1
\* (None) when i is at or past the end of the slice.
Window(mem, len, start) == [mem |-> mem, len |-> len - start, start |-> start]
Get(input, i) ==
    IF i < input.len THEN MemGet(input.mem, input.start + i) ELSE -1

Parse1(input, op) ==
    LET a == Get(input, 1)
    IN  IF a = -1 THEN NoToken ELSE Tok(op, a, 0, 0)

\* Faulty variant of Parse2: a missing second operand is read as 0.
Parse2_second_defaulted(input, op) ==
    LET a == Get(input, 1)
        b == Get(input, 2)
    IN  IF a = -1 THEN NoToken ELSE Tok(op, a, IF b = -1 THEN 0 ELSE b, 0)

Parse2(input, op) ==
    LET a == Get(input, 1)
        b == Get(input, 2)
    IN  IF a = -1 \/ b = -1 THEN NoToken ELSE Tok(op, a, b, 0)

Parse3(input, op) ==
    LET a == Get(input, 1)
        b == Get(input, 2)
        c == Get(input, 3)
    IN  IF a = -1 \/ b = -1 \/ c = -1 THEN NoToken ELSE Tok(op, a, b, c)

\* Token::parse
parse(input) ==
    LET val == Get(input, 0)
    IN  IF val = -1 THEN NoToken
        ELSE CASE val = HALT -> Tok("Halt", 0, 0, 0)
               [] val = SET -> Parse2(input, "Set")
               [] val = PUSH -> Parse1(input, "Push")
               [] val = POP -> Parse1(input, "Pop")
               [] val = EQ -> Parse3(input, "Eq")
               [] val = GT -> Parse3(input, "Gt")
               [] val = JMP -> Parse1(input, "Jmp")
               [] val = JT -> Parse2(input, "Jt")
               [] val = JF -> Parse2(input, "Jf")
               [] val = ADD -> Parse3(input, "Add")
               [] val = MULT -> Parse3(input, "Mult")
               [] val = MOD -> Parse3(input, "Mod")
               [] val = AND -> Parse3(input, "And")
               [] val = OR -> Parse3(input, "Or")
               [] val = NOT -> Parse2(input, "Not")
               [] val = RMEM -> Parse2(input, "Rmem")
               [] val = WMEM -> Parse2(input, "Wmem")
               [] val = CALL -> Parse1(input, "Call")
               [] val = RET -> Tok("Ret", 0, 0, 0)
               [] val = OUT -> Parse1(input, "Out")
               [] val = IN_ -> Parse1(input, "In")
               [] val = NOOP -> Tok("Noop", 0, 0, 0)
               [] OTHER -> Tok("Unknown", val, 0, 0)

\* Token::pc_delta
pc_delta(token) ==
    CASE token.op = "Halt" -> 1
      [] token.op = "Set" -> 3
      [] token.op = "Push" -> 2
      [] token.op = "Pop" -> 2
      [] token.op = "Eq" -> 4
      [] token.op = "Gt" -> 4
      [] token.op = "Jmp" -> 2
      [] token.op = "Jt" -> 3
      [] token.op = "Jf" -> 3
      [] token.op = "Add" -> 4
      [] token.op = "Mult" -> 4
      [] token.op = "Mod" -> 4
      [] token.op = "And" -> 4
      [] token.op = "Or" -> 4
      [] token.op = "Not" -> 3
      [] token.op = "Rmem" -> 3
      [] token.op = "Wmem" -> 3
      [] token.op = "Call" -> 2
      [] token.op = "Ret" -> 1
      [] token.op = "Out" -> 2
      [] token.op = "In" -> 2
      [] token.op = "Noop" -> 1
      [] token.op = "Unknown" -> 1

\* ------------------------------------------------------------ machine.rs

\* enum RunState.  text is the String of BufferedOutput; msg and at are the
\* diagnostic of Error (its message and the pc it names).
Continue == [tag |-> "Continue", text |-> <<>>, msg |-> "", at |-> 0]
BufferedOutput(text) == [tag |-> "BufferedOutput", text |-> text, msg |-> "", at |-> 0]
InuptNeeded == [tag |-> "InuptNeeded", text |-> <<>>, msg |-> "", at |-> 0]
Error(msg, at) == [tag |-> "Error", text |-> <<>>, msg |-> msg, at |-> at]
Halt == [tag |-> "Halt", text |-> <<>>, msg |-> "", at |-> 0]

\* Faulty variant of new: the zeros fill the memory up to U15_MAX words only,
\* leaving the registers out.
new_without_registers(program) ==
    [run_state |-> Continue,
     pc |-> 0,
     stack |-> <<>>,
     memory |-> VecOf(program),
     memory_len |-> Len(program) + (U15_MAX - Len(program)),
     input_buffer |-> <<>>,
     output_buffer |-> <<>>,
     panicked |-> FALSE]

\* Faulty variant of new: the memory is the program alone, without the zeros
\* (and the registers) after it.
new_program_only(program) ==
    [run_state |-> Continue,
     pc |-> 0,
     stack |-> <<>>,
     memory |-> VecOf(program),
     memory_len |-> Len(program),
     input_buffer |-> <<>>,
     output_buffer |-> <<>>,
     panicked |-> FALSE]

\* Machine::new: the program followed by zeros up to U15_MAX + NUM_REGISTERS
\* words.  panicked records that a call on this machine ended in a panic.
new(program) ==
    [run_state |-> Continue,
     pc |-> 0,
     stack |-> <<>>,
     memory |-> VecOf(program),
     memory_len |-> Len(program) + ((U15_MAX + NUM_REGISTERS) - Len(program)),
     input_buffer |-> <<>>,
     output_buffer |-> <<>>,
     panicked |-> FALSE]

\* A panic (index out of bounds, division by zero) unwinds out of the call and
\* leaves the fields as they were at that point.
Panic(m) == [m EXCEPT !.panicked = TRUE]

\* anyhow::Result<()> of process_token: the machine after the call, and the
\* error message ("" for Ok).
Ok(m) == [m |-> m, err |-> ""]
Err(m, e) == [m |-> m, err |-> e]

\* self.memory[i] = v
Store(m, i, v) ==
    IF i < m.memory_len THEN [m EXCEPT !.memory = MemSet(@, i, v)] ELSE Panic(m)

\* self.pc += token.pc_delta(), reached only when nothing before it panicked
Advance(m, token) ==
    IF m.panicked THEN m ELSE [m EXCEPT !.pc = @ + pc_delta(token)]

\* Machine::fetch_val: whether the read self.memory[arg] is within bounds, and
\* the value read.
FetchOk(m, arg) == arg < REGISTER_OFFSET \/ arg < m.memory_len
fetch_val(m, arg) == IF arg < REGISTER_OFFSET THEN arg ELSE MemGet(m.memory, arg)

\* A u32 value, kept as its two 16-bit halves [hi, lo] (the model's integers
\* are narrower than u32).  hi at or above U16_RANGE is a value that does not
\* fit u32: the operation overflowed.
U32(hi, lo) == [hi |-> hi, lo |-> lo]
u32_overflows(x) == x.hi >= U16_RANGE
u32_wrap(x) == U32(x.hi % U16_RANGE, x.lo)

\* lhs as u32 + rhs as u32 and lhs as u32 * rhs as u32, exact, for u16 operands.
WideAdd(lhs, rhs) == U32((lhs + rhs) \div U16_RANGE, (lhs + rhs) % U16_RANGE)
WideMul(lhs, rhs) ==
    LET x == (lhs \div U8_RANGE) * rhs
        y == (lhs % U8_RANGE) * rhs
        mid == (x % U8_RANGE) * U8_RANGE + y
    IN  U32((x \div U8_RANGE) + (mid \div U16_RANGE), mid % U16_RANGE)

\* x % n for a u32 x and 0 < n <= U16_RANGE
u32_rem(x, n) == ((x.hi % n) * (U16_RANGE % n) + x.lo) % n

\* Faulty variant of aritmatic_mod_u15 (for u32::mul): the result is reduced
\* modulo the largest word, U15_MAX - 1, instead of U15_MAX.
aritmatic_mod_u15_mul_largest_word(lhs, rhs) ==
    u32_rem(u32_wrap(WideMul(lhs, rhs)), U15_MAX - 1) % U16_RANGE

\* Machine::aritmatic_mod_u15 with f = u32::add and with f = u32::mul: the
\* operands widened to u32, the result reduced modulo U15_MAX and narrowed to
\* u16.
aritmatic_mod_u15_add(lhs, rhs) == u32_rem(u32_wrap(WideAdd(lhs, rhs)), U15_MAX) % U16_RANGE
aritmatic_mod_u15_mul(lhs, rhs) == u32_rem(u32_wrap(WideMul(lhs, rhs)), U15_MAX) % U16_RANGE

\* The u16 operators &, | and !, bit by bit over the U16_BITS bits.
RECURSIVE BitAnd(_, _, _)
BitAnd(x, y, n) ==
    IF n = 0 THEN 0
    ELSE (IF x % 2 = 1 /\ y % 2 = 1 THEN 1 ELSE 0) + 2 * BitAnd(x \div 2, y \div 2, n - 1)

RECURSIVE BitOr(_, _, _)
BitOr(x, y, n) ==
    IF n = 0 THEN 0
    ELSE (IF x % 2 = 1 \/ y % 2 = 1 THEN 1 ELSE 0) + 2 * BitOr(x \div 2, y \div 2, n - 1)

RECURSIVE BitNot(_, _)
BitNot(x, n) ==
    IF n = 0 THEN 0
    ELSE (IF x % 2 = 1 THEN 0 ELSE 1) + 2 * BitNot(x \div 2, n - 1)

u16_and(x, y) == BitAnd(x, y, U16_BITS)
u16_or(x, y) == BitOr(x, y, U16_BITS)
u16_not(x) == BitNot(x, U16_BITS)

\* char::from_u32: None for a surrogate or a value above CHAR_MAX.
\* Faulty variant of IsChar: the surrogate range is taken for characters.
IsChar_with_surrogates(val) == val <= CHAR_MAX

IsChar(val) == val <= CHAR_MAX /\ ~(val >= SURROGATE_LO /\ val <= SURROGATE_HI)

\* ---- Machine::process_token, one operator per match arm

\* Faulty variant of process_Halt: the machine goes on with the next instruction.
process_Halt_goes_on(m, token) == Ok(Advance(m, token))

process_Halt(m, token) == Ok([m EXCEPT !.run_state = Halt])

\* Faulty variant of process_Set: the register's number, not its address, is
\* used as the index of the cell written.
process_Set_register_number(m, token) ==
    LET register == token.a
        value == token.b
    IN  IF register >= REGISTER_OFFSET /\ register < REGISTER_OFFSET + NUM_REGISTERS
        THEN IF ~FetchOk(m, value) THEN Ok(Panic(m))
             ELSE Ok(Advance(Store(m, register - REGISTER_OFFSET, fetch_val(m, value)), token))
        ELSE Err(m, "Set: register argument out of bounds")

\* Faulty variant of process_Set: the range check admits the address one past
\* the last register.
process_Set_inclusive_bound(m, token) ==
    LET register == token.a
        value == token.b
    IN  IF register >= REGISTER_OFFSET /\ register <= REGISTER_OFFSET + NUM_REGISTERS
        THEN IF ~FetchOk(m, value) THEN Ok(Panic(m))
             ELSE Ok(Advance(Store(m, register, fetch_val(m, value)), token))
        ELSE Err(m, "Set: register argument out of bounds")

process_Set(m, token) ==
    LET register == token.a
        value == token.b
    IN  IF register >= REGISTER_OFFSET /\ register < REGISTER_OFFSET + NUM_REGISTERS
        THEN IF ~FetchOk(m, value) THEN Ok(Panic(m))
             ELSE Ok(Advance(Store(m, register, fetch_val(m, value)), token))
        ELSE Err(m, "Set: register argument out of bounds")

process_Push(m, token) ==
    LET value == token.a
    IN  IF ~FetchOk(m, value) THEN Ok(Panic(m))
        ELSE Ok(Advance([m EXCEPT !.stack = Append(@, fetch_val(m, value))], token))

\* Faulty variant of process_Pop: the oldest entry is taken, not the newest.
process_Pop_oldest(m, token) ==
    LET destination == token.a
    IN  IF Len(m.stack) > 0
        THEN LET value == m.stack[1]
                 popped == [m EXCEPT !.stack = Tail(@)]
             IN  Ok(Advance(Store(popped, destination, value), token))
        ELSE Err(m, "Attempted to pop empty stack")

\* Faulty variant of process_Pop: an empty stack halts the machine, as Ret does.
process_Pop_halts_on_empty(m, token) ==
    LET destination == token.a
    IN  IF Len(m.stack) > 0
        THEN LET value == m.stack[Len(m.stack)]
                 popped == [m EXCEPT !.stack = SubSeq(@, 1, Len(@) - 1)]
             IN  Ok(Advance(Store(popped, destination, value), token))
        ELSE Ok([m EXCEPT !.run_state = Halt])

\* stack.pop() comes first: the entry is gone when the write to memory panics.
process_Pop(m, token) ==
    LET destination == token.a
    IN  IF Len(m.stack) > 0
        THEN LET value == m.stack[Len(m.stack)]
                 popped == [m EXCEPT !.stack = SubSeq(@, 1, Len(@) - 1)]
             IN  Ok(Advance(Store(popped, destination, value), token))
        ELSE Err(m, "Attempted to pop empty stack")

process_Eq(m, token) ==
    LET destination == token.a
        lhs == token.b
        rhs == token.c
    IN  IF ~FetchOk(m, lhs) \/ ~FetchOk(m, rhs) THEN Ok(Panic(m))
        ELSE IF fetch_val(m, lhs) = fetch_val(m, rhs)
             THEN Ok(Advance(Store(m, destination, 1), token))
             ELSE Ok(Advance(Store(m, destination, 0), token))

process_Gt(m, token) ==
    LET destination == token.a
        lhs == token.b
        rhs == token.c
    IN  IF ~FetchOk(m, lhs) \/ ~FetchOk(m, rhs) THEN Ok(Panic(m))
        ELSE IF fetch_val(m, lhs) > fetch_val(m, rhs)
             THEN Ok(Advance(Store(m, destination, 1), token))
             ELSE Ok(Advance(Store(m, destination, 0), token))

process_Jmp(m, token) ==
    LET destination == token.a
    IN  IF ~FetchOk(m, destination) THEN Ok(Panic(m))
        ELSE Ok([m EXCEPT !.pc = fetch_val(m, destination)])

process_Jt(m, token) ==
    LET test_val == token.a
        destination == token.b
    IN  IF ~FetchOk(m, test_val) THEN Ok(Panic(m))
        ELSE IF fetch_val(m, test_val) # 0
             THEN IF ~FetchOk(m, destination) THEN Ok(Panic(m))
                  ELSE Ok([m EXCEPT !.pc = fetch_val(m, destination)])
             ELSE Ok(Advance(m, token))

\* Faulty variant of process_Jf: the jump is taken on a non-zero test value,
\* as for Jt.
process_Jf_on_nonzero(m, token) ==
    LET test_val == token.a
        destination == token.b
    IN  IF ~FetchOk(m, test_val) THEN Ok(Panic(m))
        ELSE IF fetch_val(m, test_val) # 0
             THEN IF ~FetchOk(m, destination) THEN Ok(Panic(m))
                  ELSE Ok([m EXCEPT !.pc = fetch_val(m, destination)])
             ELSE Ok(Advance(m, token))

process_Jf(m, token) ==
    LET test_val == token.a
        destination == token.b
    IN  IF ~FetchOk(m, test_val) THEN Ok(Panic(m))
        ELSE IF fetch_val(m, test_val) = 0
             THEN IF ~FetchOk(m, destination) THEN Ok(Panic(m))
                  ELSE Ok([m EXCEPT !.pc = fetch_val(m, destination)])
             ELSE Ok(Advance(m, token))

\* Faulty variant of process_Add: the destination is resolved like a read
\* operand, so a register's content is taken for the address to write.
process_Add_resolved_destination(m, token) ==
    LET destination == token.a
        lhs == token.b
        rhs == token.c
    IN  IF ~FetchOk(m, lhs) \/ ~FetchOk(m, rhs) \/ ~FetchOk(m, destination) THEN Ok(Panic(m))
        ELSE IF u32_overflows(WideAdd(fetch_val(m, lhs), fetch_val(m, rhs))) THEN Ok(Panic(m))
        ELSE LET result == aritmatic_mod_u15_add(fetch_val(m, lhs), fetch_val(m, rhs))
             IN  Ok(Advance(Store(m, fetch_val(m, destination), result), token))

\* u32::add and u32::mul panic on overflow when overflow checks are on (they
\* wrap otherwise); the operands are u16 values widened to u32.
process_Add(m, token) ==
    LET destination == token.a
        lhs == token.b
        rhs == token.c
    IN  IF ~FetchOk(m, lhs) \/ ~FetchOk(m, rhs) THEN Ok(Panic(m))
        ELSE IF u32_overflows(WideAdd(fetch_val(m, lhs), fetch_val(m, rhs))) THEN Ok(Panic(m))
        ELSE LET result == aritmatic_mod_u15_add(fetch_val(m, lhs), fetch_val(m, rhs))
             IN  Ok(Advance(Store(m, destination, result), token))

process_Mult(m, token) ==
    LET destination == token.a
        lhs == token.b
        rhs == token.c
    IN  IF ~FetchOk(m, lhs) \/ ~FetchOk(m, rhs) THEN Ok(Panic(m))
        ELSE IF u32_overflows(WideMul(fetch_val(m, lhs), fetch_val(m, rhs))) THEN Ok(Panic(m))
        ELSE LET result == aritmatic_mod_u15_mul(fetch_val(m, lhs), fetch_val(m, rhs))
             IN  Ok(Advance(Store(m, destination, result), token))

\* The u16 remainder panics on a zero divisor.
process_Mod(m, token) ==
    LET destination == token.a
        lhs == token.b
        rhs == token.c
    IN  IF ~FetchOk(m, lhs) \/ ~FetchOk(m, rhs) THEN Ok(Panic(m))
        ELSE IF fetch_val(m, rhs) = 0 THEN Ok(Panic(m))
        ELSE LET result == fetch_val(m, lhs) % fetch_val(m, rhs)
             IN  Ok(Advance(Store(m, destination, result), token))

process_And(m, token) ==
    LET destination == token.a
        lhs == token.b
        rhs == token.c
    IN  IF ~FetchOk(m, lhs) \/ ~FetchOk(m, rhs) THEN Ok(Panic(m))
        ELSE LET result == u16_and(fetch_val(m, lhs), fetch_val(m, rhs)) % U15_MAX
             IN  Ok(Advance(Store(m, destination, result), token))

process_Or(m, token) ==
    LET destination == token.a
        lhs == token.b
        rhs == token.c
    IN  IF ~FetchOk(m, lhs) \/ ~FetchOk(m, rhs) THEN Ok(Panic(m))
        ELSE LET result == u16_or(fetch_val(m, lhs), fetch_val(m, rhs)) % U15_MAX
             IN  Ok(Advance(Store(m, destination, result), token))

\* Faulty variant of process_Not: the complement of the 16 bits is stored
\* without the reduction modulo U15_MAX.
process_Not_unreduced(m, token) ==
    LET destination == token.a
        value == token.b
    IN  IF ~FetchOk(m, value) THEN Ok(Panic(m))
        ELSE LET result == u16_not(fetch_val(m, value))
             IN  Ok(Advance(Store(m, destination, result), token))

process_Not(m, token) ==
    LET destination == token.a
        value == token.b
    IN  IF ~FetchOk(m, value) THEN Ok(Panic(m))
        ELSE LET result == u16_not(fetch_val(m, value)) % U15_MAX
             IN  Ok(Advance(Store(m, destination, result), token))

process_Rmem(m, token) ==
    LET destination == token.a
    IN  IF ~FetchOk(m, token.b) THEN Ok(Panic(m))
        ELSE LET source == fetch_val(m, token.b)
             IN  IF ~(source < m.memory_len) THEN Ok(Panic(m))
                 ELSE LET value == MemGet(m.memory, source)
                      IN  Ok(Advance(Store(m, destination, value), token))

\* Faulty variant of process_Wmem: the destination is taken raw, as for Rmem.
process_Wmem_raw_destination(m, token) ==
    LET value == token.b
        destination == token.a
    IN  IF ~FetchOk(m, value) THEN Ok(Panic(m))
        ELSE Ok(Advance(Store(m, destination, fetch_val(m, value)), token))

process_Wmem(m, token) ==
    LET value == token.b
    IN  IF ~FetchOk(m, token.a) THEN Ok(Panic(m))
        ELSE LET destination == fetch_val(m, token.a)
             IN  IF ~FetchOk(m, value) THEN Ok(Panic(m))
                 ELSE Ok(Advance(Store(m, destination, fetch_val(m, value)), token))

\* Faulty variant of process_Call: the address pushed is that of the Call
\* itself.
process_Call_pushes_own_address(m, token) ==
    LET destination == token.a
        pushed == [m EXCEPT !.stack = Append(@, m.pc % U16_RANGE)]
    IN  IF ~FetchOk(m, destination) THEN Ok(Panic(pushed))
        ELSE Ok([pushed EXCEPT !.pc = fetch_val(m, destination)])

\* The return address is pushed before the target is fetched.  pc is below
\* memory_len here (the token was decoded there), so the u16 sum does not wrap.
process_Call(m, token) ==
    LET destination == token.a
        pushed == [m EXCEPT !.stack = Append(@, ((m.pc % U16_RANGE) + pc_delta(token)) % U16_RANGE)]
    IN  IF ~FetchOk(m, destination) THEN Ok(Panic(pushed))
        ELSE Ok([pushed EXCEPT !.pc = fetch_val(m, destination)])

\* Faulty variant of process_Ret: an empty stack is an error, as for Pop.
process_Ret_errors_on_empty(m, token) ==
    IF Len(m.stack) > 0
    THEN LET destination == m.stack[Len(m.stack)]
         IN  Ok([m EXCEPT !.stack = SubSeq(@, 1, Len(@) - 1), !.pc = destination])
    ELSE Err(m, "Attempted to pop empty stack")

process_Ret(m, token) ==
    IF Len(m.stack) > 0
    THEN LET destination == m.stack[Len(m.stack)]
         IN  Ok([m EXCEPT !.stack = SubSeq(@, 1, Len(@) - 1), !.pc = destination])
    ELSE Ok([m EXCEPT !.run_state = Halt])

\* Faulty variant of process_Out: every Out hands its character out at once
\* instead of appending it to the buffer.
process_Out_unbatched(m, token) ==
    LET arg == token.a
    IN  IF ~FetchOk(m, arg) THEN Ok(Panic(m))
        ELSE LET val == fetch_val(m, arg)
             IN  IF IsChar(val)
                 THEN Ok(Advance([m EXCEPT !.run_state = BufferedOutput(<<val>>)], token))
                 ELSE Err(m, "Could not convert {val} to char")

process_Out(m, token) ==
    LET arg == token.a
    IN  IF ~FetchOk(m, arg) THEN Ok(Panic(m))
        ELSE LET val == fetch_val(m, arg)
             IN  IF IsChar(val)
                 THEN Ok(Advance([m EXCEPT !.output_buffer = Append(@, val)], token))
                 ELSE Err(m, "Could not convert {val} to char")

\* Faulty variant of pop_front: the newest character is taken.
pop_front_newest(queue) ==
    [value |-> queue[Len(queue)], rest |-> SubSeq(queue, 1, Len(queue) - 1)]

\* VecDeque::pop_front on a queue that is not empty: the oldest character, and
\* the queue without it.
pop_front(queue) == [value |-> Head(queue), rest |-> Tail(queue)]

\* pop_front comes first: the character is gone when the write to memory
\* panics.  `ch as u16` keeps the low 16 bits of the character's code.
process_In(m, token) ==
    LET destination == token.a
    IN  IF Len(m.input_buffer) > 0
        THEN LET ch == pop_front(m.input_buffer).value
                 popped == [m EXCEPT !.input_buffer = pop_front(@).rest]
             IN  Ok(Advance(Store(popped, destination, ch % U16_RANGE), token))
        ELSE Ok([m EXCEPT !.run_state = InuptNeeded])

process_Noop(m, token) == Ok(Advance(m, token))

\* Faulty variant of process_Unknown: the word is skipped.
process_Unknown_skipped(m, token) == Ok(Advance(m, token))

process_Unknown(m, token) == Err(m, "process_token: Unknown token encountered")

\* Machine::process_token
process_token(m, token) ==
    CASE token.op = "Halt" -> process_Halt(m, token)
      [] token.op = "Set" -> process_Set(m, token)
      [] token.op = "Push" -> process_Push(m, token)
      [] token.op = "Pop" -> process_Pop(m, token)
      [] token.op = "Eq" -> process_Eq(m, token)
      [] token.op = "Gt" -> process_Gt(m, token)
      [] token.op = "Jmp" -> process_Jmp(m, token)
      [] token.op = "Jt" -> process_Jt(m, token)
      [] token.op = "Jf" -> process_Jf(m, token)
      [] token.op = "Add" -> process_Add(m, token)
      [] token.op = "Mult" -> process_Mult(m, token)
      [] token.op = "Mod" -> process_Mod(m, token)
      [] token.op = "And" -> process_And(m, token)
      [] token.op = "Or" -> process_Or(m, token)
      [] token.op = "Not" -> process_Not(m, token)
      [] token.op = "Rmem" -> process_Rmem(m, token)
      [] token.op = "Wmem" -> process_Wmem(m, token)
      [] token.op = "Call" -> process_Call(m, token)
      [] token.op = "Ret" -> process_Ret(m, token)
      [] token.op = "Out" -> process_Out(m, token)
      [] token.op = "In" -> process_In(m, token)
      [] token.op = "Noop" -> process_Noop(m, token)
      [] token.op = "Unknown" -> process_Unknown(m, token)

\* Faulty variant of flush_output_buffer: the characters are returned but stay
\* in the buffer.
flush_output_buffer_not_drained(m) == [m |-> m, text |-> m.output_buffer]

\* Machine::flush_output_buffer: drains the buffer; the drained characters are
\* the String it returns.
flush_output_buffer(m) == [m |-> [m EXCEPT !.output_buffer = <<>>], text |-> m.output_buffer]

\* Machine::push_input
push_input(m, input) == [m EXCEPT !.input_buffer = @ \o input]

\* Faulty variant of DecodeExecute: the buffered output is handed out and the
\* decoded instruction is executed in the same step.
DecodeExecute_flush_and_execute(m) ==
    IF m.pc > m.memory_len THEN Panic(m)
    ELSE LET token == parse(Window(m.memory, m.memory_len, m.pc))
         IN  IF token # NoToken
             THEN LET f == flush_output_buffer(m)
                      flushed == token.op # "Out" /\ Len(m.output_buffer) > 0
                      r == process_token(IF flushed THEN f.m ELSE m, token)
                  IN  IF r.err # ""
                      THEN [r.m EXCEPT !.run_state = Error(r.err, r.m.pc)]
                      ELSE IF flushed /\ r.m.run_state = Continue
                           THEN [r.m EXCEPT !.run_state = BufferedOutput(f.text)]
                           ELSE r.m
             ELSE IF m.pc < m.memory_len
                  THEN [m EXCEPT !.run_state = Error("could not parse instruction", m.pc)]
                  ELSE Panic(m)

\* Faulty variant of DecodeExecute: Noop is executed without the buffered
\* output being handed out first.
DecodeExecute_noop_unflushed(m) ==
    IF m.pc > m.memory_len THEN Panic(m)
    ELSE LET token == parse(Window(m.memory, m.memory_len, m.pc))
         IN  IF token # NoToken
             THEN IF token.op \notin {"Out", "Noop"} /\ Len(m.output_buffer) > 0
                  THEN LET f == flush_output_buffer(m)
                       IN  [f.m EXCEPT !.run_state = BufferedOutput(f.text)]
                  ELSE LET r == process_token(m, token)
                       IN  IF r.err # ""
                           THEN [r.m EXCEPT !.run_state = Error(r.err, r.m.pc)]
                           ELSE r.m
             ELSE IF m.pc < m.memory_len
                  THEN [m EXCEPT !.run_state = Error("could not parse instruction", m.pc)]
                  ELSE Panic(m)

\* Faulty variant of DecodeExecute: Halt and Ret are executed without the
\* buffered output being handed out first.
DecodeExecute_stops_unflushed(m) ==
    IF m.pc > m.memory_len THEN Panic(m)
    ELSE LET token == parse(Window(m.memory, m.memory_len, m.pc))
         IN  IF token # NoToken
             THEN IF token.op \notin {"Out", "Halt", "Ret"} /\ Len(m.output_buffer) > 0
                  THEN LET f == flush_output_buffer(m)
                       IN  [f.m EXCEPT !.run_state = BufferedOutput(f.text)]
                  ELSE LET r == process_token(m, token)
                       IN  IF r.err # ""
                           THEN [r.m EXCEPT !.run_state = Error(r.err, r.m.pc)]
                           ELSE r.m
             ELSE IF m.pc < m.memory_len
                  THEN [m EXCEPT !.run_state = Error("could not parse instruction", m.pc)]
                  ELSE Panic(m)

\* Faulty variant of DecodeExecute: In is executed without the buffered output
\* being handed out first.
DecodeExecute_in_unflushed(m) ==
    IF m.pc > m.memory_len THEN Panic(m)
    ELSE LET token == parse(Window(m.memory, m.memory_len, m.pc))
         IN  IF token # NoToken
             THEN IF token.op \notin {"Out", "In"} /\ Len(m.output_buffer) > 0
                  THEN LET f == flush_output_buffer(m)
                       IN  [f.m EXCEPT !.run_state = BufferedOutput(f.text)]
                  ELSE LET r == process_token(m, token)
                       IN  IF r.err # ""
                           THEN [r.m EXCEPT !.run_state = Error(r.err, r.m.pc)]
                           ELSE r.m
             ELSE IF m.pc < m.memory_len
                  THEN [m EXCEPT !.run_state = Error("could not parse instruction", m.pc)]
                  ELSE Panic(m)

\* run_once from the decode on (the run-state is Continue here).  The slice
\* &self.memory[self.pc..] panics when pc is past the end; when the token does
\* not parse, the message reads self.memory[self.pc], which panics when pc is
\* the length.
DecodeExecute(m) ==
    IF m.pc > m.memory_len THEN Panic(m)
    ELSE LET token == parse(Window(m.memory, m.memory_len, m.pc))
         IN  IF token # NoToken
             THEN IF token.op # "Out" /\ Len(m.output_buffer) > 0
                  THEN LET f == flush_output_buffer(m)
                       IN  [f.m EXCEPT !.run_state = BufferedOutput(f.text)]
                  ELSE LET r == process_token(m, token)
                       IN  IF r.err # ""
                           THEN [r.m EXCEPT !.run_state = Error(r.err, r.m.pc)]
                           ELSE r.m
             ELSE IF m.pc < m.memory_len
                  THEN [m EXCEPT !.run_state = Error("could not parse instruction", m.pc)]
                  ELSE Panic(m)

\* Faulty variant of run_once: a terminal state does not absorb the call; the
\* machine steps over the instruction it stopped at and goes on.
run_once_steps_over(m) ==
    IF m.run_state.tag = "InuptNeeded" /\ Len(m.input_buffer) = 0 THEN m
    ELSE DecodeExecute([m EXCEPT !.run_state = Continue,
                                 !.pc = IF m.run_state.tag \in {"Halt", "Error"}
                                        THEN @ + 1 ELSE @])

\* Faulty variant of run_once: a call made in BufferedOutput, or in InuptNeeded
\* with input queued, only resets the run-state and returns; the instruction is
\* left for the next call.
run_once_resets_only(m) ==
    IF m.run_state.tag \in {"Halt", "Error"} THEN m
    ELSE IF m.run_state.tag = "InuptNeeded" /\ Len(m.input_buffer) = 0 THEN m
    ELSE IF m.run_state.tag \in {"BufferedOutput", "InuptNeeded"}
         THEN [m EXCEPT !.run_state = Continue]
    ELSE DecodeExecute([m EXCEPT !.run_state = Continue])

\* Machine::run_once: the match on the run-state returns from a terminal state
\* and from InuptNeeded with nothing queued, and otherwise falls through to the
\* decode with the run-state Continue.
run_once(m) ==
    IF m.run_state.tag \in {"Halt", "Error"} THEN m
    ELSE IF m.run_state.tag = "InuptNeeded" /\ Len(m.input_buffer) = 0 THEN m
    ELSE DecodeExecute([m EXCEPT !.run_state = Continue])

\* Faulty variant of run: after the call of run_once that returned something
\* else than Continue, one more call is made.
RECURSIVE run_one_call_more(_, _)
run_one_call_more(m, calls) ==
    IF calls = 0 THEN [returned |-> FALSE, before |-> m, trace |-> <<>>, m |-> m]
    ELSE LET after == run_once(m)
         IN  IF after.panicked
             THEN [returned |-> TRUE, before |-> m, trace |-> <<m>>, m |-> after]
             ELSE IF after.run_state # Continue
             THEN [returned |-> TRUE, before |-> after, trace |-> <<m, after>>,
                   m |-> run_once(after)]
             ELSE LET rest == run_one_call_more(after, calls - 1)
                  IN  [rest EXCEPT !.trace = <<m>> \o @]

\* Machine::run: calls run_once until a call returns something else than
\* Continue (or panics).  `calls` bounds the calls followed here; the result
\* says whether run returned within them, and gives the machines the calls
\* were made on (trace; before is the last of them) and the machine after the
\* last call.
RECURSIVE run(_, _)
run(m, calls) ==
    IF calls = 0 THEN [returned |-> FALSE, before |-> m, trace |-> <<>>, m |-> m]
    ELSE LET after == run_once(m)
         IN  IF after.panicked \/ after.run_state # Continue
             THEN [returned |-> TRUE, before |-> m, trace |-> <<m>>, m |-> after]
             ELSE LET rest == run(after, calls - 1)
                  IN  [rest EXCEPT !.trace = <<m>> \o @]

\* The concatenation of the sequences in ss.
RECURSIVE Flatten(_)
Flatten(ss) == IF ss = <<>> THEN <<>> ELSE Head(ss) \o Flatten(Tail(ss))

\* ------------------------------------------------------------ replay.rs

\* Strings are sequences of character codes.  REPLAY_SAVE_DIR is "replays";
\* REPLAY_PREFIX is the "replay_" of the regex and of the formatted path.
REPLAY_SAVE_DIR == <<114, 101, 112, 108, 97, 121, 115>>
REPLAY_PREFIX == <<114, 101, 112, 108, 97, 121, 95>>
SLASH == 47
UNDERSCORE == 95
PLUS == 43
DIGIT_0 == 48
DIGIT_9 == 57

\* \d of the regex, and the digits that str::parse::<u32> accepts.
IsDigit(c) == c >= DIGIT_0 /\ c <= DIGIT_9

\* Regex (replay_[\d]+), unanchored: is_match holds when the name contains
\* "replay_" followed by a digit.
is_match(name) ==
    \E i \in 1..Len(name) :
       /\ i + Len(REPLAY_PREFIX) <= Len(name)
       /\ SubSeq(name, i, i + Len(REPLAY_PREFIX) - 1) = REPLAY_PREFIX
       /\ IsDigit(name[i + Len(REPLAY_PREFIX)])

\* The order of String (Ord for str): byte by byte, a proper prefix first.
RECURSIVE StrLess(_, _)
StrLess(a, b) ==
    IF b = <<>> THEN FALSE
    ELSE IF a = <<>> THEN TRUE
    ELSE IF Head(a) # Head(b) THEN Head(a) < Head(b)
    ELSE StrLess(Tail(a), Tail(b))

\* Vec<String>::sort of the names in a set (names in a directory are distinct).
RECURSIVE sort(_)
sort(names) ==
    IF names = {} THEN <<>>
    ELSE LET greatest == CHOOSE x \in names : \A y \in names : y = x \/ StrLess(y, x)
         IN  Append(sort(names \ {greatest}), greatest)

\* ReplayManager::replay_files: the names of the regular files of the
\* directory that match the regex, sorted; none when the directory is missing.
replay_files(dir) ==
    IF ~dir.exists THEN <<>>
    ELSE sort({ e.name : e \in { f \in dir.entries : f.is_file /\ is_match(f.name) } })

\* str::split_once('_'): the part after the first underscore, or None.
RECURSIVE split_once(_)
split_once(name) ==
    IF name = <<>> THEN [some |-> FALSE, rest |-> <<>>]
    ELSE IF Head(name) = UNDERSCORE THEN [some |-> TRUE, rest |-> Tail(name)]
    ELSE split_once(Tail(name))

\* str::parse::<u32>: an optional '+' and then one or more ASCII digits (the
\* digit strings here are short, so the value fits u32).
RECURSIVE DecimalValue(_)
DecimalValue(digits) ==
    IF digits = <<>> THEN 0
    ELSE DecimalValue(SubSeq(digits, 1, Len(digits) - 1)) * 10
            + (digits[Len(digits)] - DIGIT_0)

parse_u32(text) ==
    LET digits == IF text # <<>> /\ Head(text) = PLUS THEN Tail(text) ELSE text
    IN  IF digits # <<>> /\ \A i \in 1..Len(digits) : IsDigit(digits[i])
        THEN [ok |-> TRUE, value |-> DecimalValue(digits)]
        ELSE [ok |-> FALSE, value |-> 0]

\* format!("{}", n) for a number n.
RECURSIVE ToDecimal(_)
ToDecimal(n) ==
    IF n < 10 THEN <<DIGIT_0 + n>>
    ELSE Append(ToDecimal(n \div 10), DIGIT_0 + (n % 10))

\* format!("{REPLAY_SAVE_DIR}/replay_{}", n)
ReplayPath(n) == REPLAY_SAVE_DIR \o <<SLASH>> \o REPLAY_PREFIX \o ToDecimal(n)

\* The while-let loop of next_file_path over the sorted names, popped from the
\* end: the first name whose part after the first underscore parses gives the
\* path with its number plus one; the default path when none does.
RECURSIVE NextPathFrom(_)
NextPathFrom(names) ==
    IF names = <<>> THEN ReplayPath(1)
    ELSE LET replay_file == names[Len(names)]
             rest == SubSeq(names, 1, Len(names) - 1)
             split == split_once(replay_file)
             file_num == parse_u32(split.rest)
         IN  IF split.some /\ file_num.ok THEN ReplayPath(file_num.value + 1)
             ELSE NextPathFrom(rest)

\* ReplayManager::next_file_path
next_file_path(dir) == NextPathFrom(replay_files(dir))

\* ReplayManager::push
replay_push(log, command) == Append(log, command)

\* ReplayManager::save: creates the directory when it is missing, then creates
\* (or truncates) the file at file_path and writes the commands to it, one
\* after the other.  The
\* path is one inside REPLAY_SAVE_DIR here.
FileName(file_path) == SubSeq(file_path, Len(REPLAY_SAVE_DIR) + 2, Len(file_path))

save(dir, log, file_path) ==
    [exists |-> TRUE,
     entries |-> { e \in dir.entries : e.name # FileName(file_path) }
                    \cup { [name |-> FileName(file_path), is_file |-> TRUE, content |-> Flatten(log)] }]

\* ------------------------------------------------------------ state

\* The fields of Machine (memory as memory_len and memory), and:
\*   panicked  a call on the machine ended in a panic (the process is gone);
\*   last      the last call made on the machine: its name and, for run_once
\*             and run, what the (last) step did, the token it decoded and the
\*             run-state it was made in;
\*   produced  the characters pushed on output_buffer by the Out instructions
\*             executed so far, in execution order;
\*   delivered the texts handed to the driver so far (in BufferedOutput values
\*             and by flush_output_buffer), concatenated;
\*   slice, parsed   the slice given to a call of Token::parse on its own, and
\*             what the call returned;
\*   replay_dir      the directory REPLAY_SAVE_DIR: whether it exists, and its
\*             entries (name, regular file or not, content);
\*   commands  the commands of the session's ReplayManager;
\*   next_path the path the last call of next_file_path returned;
\*   loaded_program  the program the machine was constructed with;
\*   consumed  the characters taken from input_buffer by the In instructions
\*             executed so far, in execution order;
\*   given     the texts given to push_input so far, concatenated in call order.
VARIABLES run_state, pc, stack, memory, memory_len, input_buffer, output_buffer,
          panicked, last, produced, delivered, slice, parsed,
          replay_dir, commands, next_path, loaded_program, consumed, given

machine_vars == <<run_state, pc, stack, memory, memory_len, input_buffer, output_buffer>>
replay_vars == <<replay_dir, commands, next_path>>
input_vars == <<consumed, given>>
vars == <<run_state, pc, stack, memory, memory_len, input_buffer, output_buffer,
          panicked, last, produced, delivered, slice, parsed,
          replay_dir, commands, next_path, loaded_program, consumed, given>>

\* The machine as one value, and the assignment of one to the fields.
Self ==
    [run_state |-> run_state, pc |-> pc, stack |-> stack, memory |-> memory,
     memory_len |-> memory_len, input_buffer |-> input_buffer,
     output_buffer |-> output_buffer, panicked |-> panicked]

Becomes(m) ==
    /\ run_state' = m.run_state
    /\ pc' = m.pc
    /\ stack' = m.stack
    /\ memory' = m.memory
    /\ memory_len' = m.memory_len
    /\ input_buffer' = m.input_buffer
    /\ output_buffer' = m.output_buffer
    /\ panicked' = m.panicked

\* What a call of run_once does in machine m: returns at once from a terminal
\* state (absorbed) or while input is missing (blocked), panics or fails in the
\* decode, hands out the buffered output (flushed) or executes the token.
Decoded(m) ==
    IF m.pc > m.memory_len THEN NoToken
    ELSE parse(Window(m.memory, m.memory_len, m.pc))

KindOf(m, token) ==
    CASE m.run_state.tag \in {"Halt", "Error"} -> "absorbed"
      [] m.run_state.tag = "InuptNeeded" /\ Len(m.input_buffer) = 0 -> "blocked"
      [] OTHER ->
            IF m.pc > m.memory_len THEN "panicked"
            ELSE IF token = NoToken THEN "decode_failed"
            ELSE IF token.op # "Out" /\ Len(m.output_buffer) > 0 THEN "flushed"
            ELSE "executed"

StepKind(m) == KindOf(m, Decoded(m))

Call(op, m) ==
    LET token == Decoded(m)
        kind == KindOf(m, token)
    IN  [op |-> op, kind |-> kind,
         token |-> IF kind \in {"flushed", "executed"} THEN token ELSE NoToken,
         from |-> m.run_state.tag]

NoCall(op) == [op |-> op, kind |-> "none", token |-> NoToken, from |-> "none"]

\* The character a call of run_once in machine m pushes on output_buffer (an
\* executed Out whose value converts to a char), the text the call hands
\* out in BufferedOutput, and the character it takes from input_buffer (an
\* executed In with a character waiting); <<>> when it does not.
Output(m) ==
    LET token == Decoded(m)
        kind == KindOf(m, token)
    IN  [pushed |-> IF kind = "executed" /\ token.op = "Out" /\ FetchOk(m, token.a)
                         /\ IsChar(fetch_val(m, token.a))
                    THEN <<fetch_val(m, token.a)>>
                    ELSE <<>>,
         handed |-> IF kind = "flushed" THEN m.output_buffer ELSE <<>>,
         taken |-> IF kind = "executed" /\ token.op = "In" /\ Len(m.input_buffer) > 0
                   THEN <<pop_front(m.input_buffer).value>>
                   ELSE <<>>]

\* The same over the calls of run_once that one call of run makes.
RECURSIVE OutputAlong(_)
OutputAlong(trace) ==
    IF trace = <<>> THEN [pushed |-> <<>>, handed |-> <<>>, taken |-> <<>>]
    ELSE LET first == Output(Head(trace))
             rest == OutputAlong(Tail(trace))
         IN  [pushed |-> first.pushed \o rest.pushed, handed |-> first.handed \o rest.handed,
              taken |-> first.taken \o rest.taken]

\* ------------------------------------------------------------ inputs

MaxSetup == 2
MaxStack == 2
MaxInput == 2
MaxRunCalls == 8
MaxOutput == 4
MaxWindow == 5

R(i) == REGISTER_OFFSET + i

\* Instructions that prepare the state the instruction under test runs in.
SetupInstrs ==
    { <<PUSH, 7>>, <<SET, R(1), 32767>>, <<OUT, 65>> }

\* Up to MaxSetup of them, in the order of their opcodes (Set, Push, Out): what
\* a Set and a Push prepare does not depend on their order, and the Outs come
\* last so that their characters are buffered when the instruction under test
\* is reached.
SetupSeqs ==
    { setup \in UNION { [1..n -> SetupInstrs] : n \in 0..MaxSetup } :
         \A i \in 1..(Len(setup) - 1) : setup[i][1] <= setup[i + 1][1] }

\* Operand words: literals, and a register (0 unless a setup instruction set it).
Operands == { 21845, 32767, R(1) }

TestInstrs ==
    { <<HALT>>, <<NOOP>>, <<RET>>, <<22>>, <<65535>> }
    \cup { <<SET, R(i), v>> : i \in 0..(NUM_REGISTERS - 1), v \in {61, 32767} }
    \cup { <<SET, R(2), R(1)>>, <<SET, R(1), 0>> }
    \cup { <<SET, d, 61>> : d \in {0, 32767, 32776, 65535} }
    \cup { <<PUSH, 5>>, <<PUSH, R(1)>> }
    \cup { <<POP, R(0)>>, <<POP, 100>>, <<POP, 40000>> }
    \cup { <<op, R(0), a, b>> : op \in {EQ, GT}, a \in {1, R(1)}, b \in {1, 32767} }
    \cup { <<JMP, 12>>, <<JMP, R(1)>>, <<JMP, 0>> }
    \cup { <<op, t, 12>> : op \in {JT, JF}, t \in {0, 1, R(1)} }
    \cup { <<JT, 1, R(1)>>, <<JF, 0, R(1)>> }
    \cup { <<WMEM, R(1), 77>> }
    \cup { <<op, R(0), a, b>> : op \in {ADD, MULT, AND, OR}, a \in Operands, b \in Operands }
    \cup { <<op, 100, 32767, 32767>> : op \in {ADD, MULT, AND, OR} }
    \cup { <<NOT, R(0), v>> : v \in Operands \cup {0} }
    \cup { <<NOT, 100, 1>> }
    \cup { <<MOD, R(0), 7, 3>>, <<MOD, R(0), R(1), 2>>, <<MOD, R(0), 5, R(2)>> }
    \cup { <<RMEM, R(0), 1>>, <<RMEM, R(0), R(1)>>, <<WMEM, 200, 77>>, <<WMEM, R(1), R(0)>> }
    \cup { <<CALL, 12>>, <<CALL, R(1)>>, <<CALL, 0>> }
    \cup { <<OUT, 66>>, <<OUT, R(1)>> }
    \cup { <<IN_, R(0)>>, <<IN_, 100>> }
    \cup { <<EQ, 100, 1, 1>>, <<GT, 100, R(1), 1>>, <<MOD, 100, 7, 3>>, <<RMEM, 100, 1>> }

\* Instructions under test that are also followed by an Out (then zeros: Halt).
FollowedByOut == { <<NOOP>>, <<OUT, 66>>, <<IN_, R(0)>>, <<SET, 0, 61>>, <<HALT>> }

\* Whole programs: two runs of Out separated by a Noop (tests::test_print_multiple),
\* instructions after a Halt (tests::test_halt), a program that ends with an
\* Out (tests::test_simple_program, tests::test_print_a), programs that read a
\* data word into register 0 to jump there or to print it, and a Call of a
\* routine that ends with Ret, two Pushes followed by two Pops, a Wmem
\* followed by an Rmem of the cell written, and two Ins.
PrintMultiple(first, second) ==
    Flatten([i \in 1..Len(first) |-> <<OUT, first[i]>>]) \o <<NOOP>>
       \o Flatten([i \in 1..Len(second) |-> <<OUT, second[i]>>])

AfterHalt == <<SET, R(0), 65, OUT, R(0), HALT, ADD, R(0), R(0), 1, OUT, R(0)>>

EndsWithOut(k) == <<ADD, R(0), R(1), k, OUT, R(0)>>

JumpTo(target) == <<RMEM, R(0), 5, JMP, R(0), target>>

TruncatedAtEnd == <<SET, R(7), SET, RMEM, R(0), 8, JMP, R(0), R(7)>>

OutThenTruncated ==
    <<SET, R(5), OUT, SET, R(6), 65, SET, R(7), SET, RMEM, R(0), 14, JMP, R(0), R(5)>>

CallRet(before, body) ==
    before \o <<CALL, Len(before) + 3, HALT>> \o body \o <<RET>>

PushPop == <<SET, R(1), 300, PUSH, R(1), PUSH, 5, POP, R(2), POP, R(3)>>

WmemRmem == <<SET, R(1), 77, WMEM, 200, R(1), RMEM, R(0), 200>>

ReadTwo == <<IN_, R(0), IN_, R(1)>>

PrintWord(before, word) ==
    <<RMEM, R(0), 5 + Len(before)>> \o before \o <<OUT, R(0), word>>

Scenarios ==
    { PrintMultiple(SubSeq(<<72, 101>>, 1, m), SubSeq(<<87, 111>>, 1, n)) :
         m \in 1..2, n \in 1..2 }
    \cup { AfterHalt, TruncatedAtEnd, OutThenTruncated }
    \cup { EndsWithOut(k) : k \in {4, 65} }
    \cup { JumpTo(target) : target \in {R(7) + 1, 40000} }
    \cup { PrintWord(<<>>, word) : word \in {SURROGATE_LO, SURROGATE_HI, SURROGATE_HI + 1} }

Programs ==
    { Flatten(setup) \o test : setup \in SetupSeqs, test \in TestInstrs }
    \cup { Flatten(setup) \o test \o <<OUT, 67>> : setup \in SetupSeqs, test \in FollowedByOut }
    \cup Scenarios
    \cup { PrintWord(<<OUT, 65>>, SURROGATE_LO) }
    \cup { CallRet(<<PUSH, 7>>, <<NOOP>>), CallRet(<<>>, <<PUSH, 9, POP, R(0)>>) }
    \cup { PushPop, WmemRmem, ReadTwo }

\* Slices given to Token::parse on its own: an opcode word (or another word)
\* followed by up to MaxWindow - 1 further words.
SliceWords == { <<op, a, b, 3, 4, 5>> : op \in 0..(NOOP + 1) \cup {65535},
                                       a \in {0, R(0)}, b \in {2, R(1)} }
Slices == { SubSeq(w, 1, n) : w \in SliceWords, n \in 0..MaxWindow }

\* Texts given to push_input: "ab", and a character outside the 16-bit range.
InputLines == { <<97, 98>>, <<128512>> }

\* Replay directories a first session may find: missing, or holding some of
\* these entries: the files "notes", "replay_2_old" and "replay_3", and the
\* directory "replay_50".
MaxCommands == 1
MaxFiles == 14

Entry(name, is_file) == [name |-> name, is_file |-> is_file, content |-> <<>>]

FoundEntries ==
    { Entry(<<110, 111, 116, 101, 115>>, TRUE),
      Entry(REPLAY_PREFIX \o <<50, 95, 111, 108, 100>>, TRUE),
      Entry(REPLAY_PREFIX \o <<51>>, TRUE),
      Entry(REPLAY_PREFIX \o <<53, 48>>, FALSE) }

ReplayDirs ==
    { [exists |-> FALSE, entries |-> {}] }
    \cup { [exists |-> TRUE, entries |-> found] : found \in SUBSET FoundEntries }

\* Lines recorded in a session: "n" and a newline.
Commands == { <<110, 10>> }

\* No replay directory, no session.
NoReplay ==
    /\ replay_dir = [exists |-> FALSE, entries |-> {}]
    /\ commands = <<>>
    /\ next_path = <<>>

\* ------------------------------------------------------------ actions

Init ==
    /\ loaded_program \in Programs
    /\ LET m == new(loaded_program)
       IN  /\ run_state = m.run_state
           /\ pc = m.pc
           /\ stack = m.stack
           /\ memory = m.memory
           /\ memory_len = m.memory_len
           /\ input_buffer = m.input_buffer
           /\ output_buffer = m.output_buffer
           /\ panicked = m.panicked
    /\ last = NoCall("new")
    /\ produced = <<>>
    /\ delivered = <<>>
    /\ consumed = <<>>
    /\ given = <<>>
    /\ slice = <<>>
    /\ parsed = NoToken
    /\ NoReplay

\* A call of run_once by the driver.
RunOnce ==
    /\ ~panicked
    /\ Len(stack) <= MaxStack
    /\ Len(produced) <= MaxOutput
    /\ Becomes(run_once(Self))
    /\ last' = Call("run_once", Self)
    /\ LET output == Output(Self)
       IN  /\ produced' = produced \o output.pushed
           /\ delivered' = delivered \o output.handed
           /\ consumed' = consumed \o output.taken
    /\ UNCHANGED <<slice, parsed, replay_vars, loaded_program, given>>

\* A call of run by the driver, when it returns.
Run ==
    /\ ~panicked
    /\ Len(stack) <= MaxStack
    /\ Len(produced) <= MaxOutput
    /\ LET r == run(Self, MaxRunCalls)
       IN  /\ r.returned
           /\ Becomes(r.m)
           /\ last' = Call("run", r.before)
           /\ LET output == OutputAlong(r.trace)
              IN  /\ produced' = produced \o output.pushed
                  /\ delivered' = delivered \o output.handed
                  /\ consumed' = consumed \o output.taken
    /\ UNCHANGED <<slice, parsed, replay_vars, loaded_program, given>>

\* A call of push_input by the driver.
PushInput ==
    /\ ~panicked
    /\ \E input \in InputLines :
          /\ Len(input_buffer) + Len(input) <= MaxInput
          /\ Becomes(push_input(Self, input))
          /\ given' = given \o input
    /\ last' = NoCall("push_input")
    /\ UNCHANGED <<produced, delivered, slice, parsed, replay_vars, loaded_program, consumed>>

\* A call of flush_output_buffer by the driver (with an empty buffer it
\* changes nothing).
FlushOutputBuffer ==
    /\ ~panicked
    /\ Len(output_buffer) > 0
    /\ Becomes(flush_output_buffer(Self).m)
    /\ last' = NoCall("flush_output_buffer")
    /\ produced' = produced
    /\ delivered' = delivered \o flush_output_buffer(Self).text
    /\ UNCHANGED <<slice, parsed, replay_vars, loaded_program, input_vars>>

Next == RunOnce \/ Run \/ PushInput \/ FlushOutputBuffer

Spec == Init /\ [][Next]_vars

\* Token::parse on its own: a slice is chosen and parse is called on it.  The
\* machine is a fresh one for the empty program and takes no part.
ParseInit ==
    /\ slice \in Slices
    /\ parsed = NoToken
    /\ loaded_program = <<>>
    /\ NoReplay
    /\ last = NoCall("new")
    /\ produced = <<>>
    /\ delivered = <<>>
    /\ consumed = <<>>
    /\ given = <<>>
    /\ LET m == new(<<>>)
       IN  /\ run_state = m.run_state
           /\ pc = m.pc
           /\ stack = m.stack
           /\ memory = m.memory
           /\ memory_len = m.memory_len
           /\ input_buffer = m.input_buffer
           /\ output_buffer = m.output_buffer
           /\ panicked = m.panicked

Parse ==
    /\ last.op = "new"
    /\ parsed' = parse(Window(VecOf(slice), Len(slice), 0))
    /\ last' = NoCall("parse")
    /\ UNCHANGED <<machine_vars, panicked, produced, delivered, slice, replay_vars, loaded_program,
                 input_vars>>

ParseNext == Parse

ParseSpec == ParseInit /\ [][ParseNext]_vars

\* Sessions of the replay recorder: ReplayManager::new, calls of push, a call
\* of next_file_path and the save to the path it returned; then the next
\* session.  The machine is a fresh one for the empty program and takes no part.
ReplayInit ==
    /\ replay_dir \in ReplayDirs
    /\ commands = <<>>
    /\ next_path = <<>>
    /\ last = NoCall("ReplayManager::new")
    /\ loaded_program = <<>>
    /\ slice = <<>>
    /\ parsed = NoToken
    /\ produced = <<>>
    /\ delivered = <<>>
    /\ consumed = <<>>
    /\ given = <<>>
    /\ LET m == new(<<>>)
       IN  /\ run_state = m.run_state
           /\ pc = m.pc
           /\ stack = m.stack
           /\ memory = m.memory
           /\ memory_len = m.memory_len
           /\ input_buffer = m.input_buffer
           /\ output_buffer = m.output_buffer
           /\ panicked = m.panicked

ReplayUnchanged ==
    UNCHANGED <<machine_vars, panicked, produced, delivered, slice, parsed, loaded_program,
              input_vars>>

ReplayNew ==
    /\ last.op = "save"
    /\ commands' = <<>>
    /\ last' = NoCall("ReplayManager::new")
    /\ UNCHANGED <<replay_dir, next_path>>
    /\ ReplayUnchanged

ReplayPush ==
    /\ last.op \in {"ReplayManager::new", "push"}
    /\ Len(commands) < MaxCommands
    /\ \E command \in Commands : commands' = replay_push(commands, command)
    /\ last' = NoCall("push")
    /\ UNCHANGED <<replay_dir, next_path>>
    /\ ReplayUnchanged

NextFilePath ==
    /\ last.op \in {"ReplayManager::new", "push"}
    /\ next_path' = next_file_path(replay_dir)
    /\ last' = NoCall("next_file_path")
    /\ UNCHANGED <<replay_dir, commands>>
    /\ ReplayUnchanged

Save ==
    /\ last.op = "next_file_path"
    /\ Cardinality(replay_dir.entries) <= MaxFiles
    /\ replay_dir' = save(replay_dir, commands, next_path)
    /\ last' = NoCall("save")
    /\ UNCHANGED <<commands, next_path>>
    /\ ReplayUnchanged

ReplayNext == ReplayNew \/ ReplayPush \/ NextFilePath \/ Save

ReplaySpec == ReplayInit /\ [][ReplayNext]_vars

\* ------------------------------------------------------------ properties

\* The step is a call of run_once by the driver / a call of run_once or run.
IsRunOnce == last'.op = "run_once"
IsStep == last'.op \in {"run_once", "run"}

\* C1: Halt and Error are absorbing: a call of run_once or run made in
\* run-state Halt or Error returns that same state and leaves pc, memory,
\* stack, input queue and output buffer unchanged.
C1_HaltErrorAbsorbing ==
    [][ (run_state.tag \in {"Halt", "Error"} /\ IsStep)
        => /\ run_state' = run_state
           /\ UNCHANGED <<pc, memory, memory_len, stack, input_buffer, output_buffer>>
           /\ ~panicked' ]_vars

\* run_once was called on a machine in run-state Error that holds input.
C1_Witness ==
    /\ last.op = "run_once"
    /\ last.kind = "absorbed"
    /\ run_state.tag = "Error"
    /\ Len(input_buffer) > 0

\* C2: when run_once decodes a non-Out instruction while the output buffer is
\* not empty, it returns BufferedOutput with exactly the buffered characters in
\* order, empties the buffer and does not execute the instruction: pc, memory,
\* stack and input queue are unchanged, and the next step decodes the same
\* instruction and executes it.
C2_FlushBeforeNonOut ==
    [][ (IsRunOnce /\ StepKind(Self) = "flushed")
        => /\ run_state' = BufferedOutput(output_buffer)
           /\ output_buffer' = <<>>
           /\ UNCHANGED <<pc, memory, memory_len, stack, input_buffer>>
           /\ ~panicked'
           /\ Decoded(Self') = Decoded(Self)
           /\ StepKind(Self') = "executed" ]_vars

\* run_once handed out two buffered characters before a non-Out instruction,
\* with an entry on the stack.
C2_Witness ==
    /\ last.op = "run_once"
    /\ last.kind = "flushed"
    /\ last.token.op \notin {"Out", "None"}
    /\ run_state.tag = "BufferedOutput"
    /\ Len(run_state.text) >= 2
    /\ Len(stack) > 0
    /\ output_buffer = <<>>

\* C3: output is batched: a successfully executed Out only appends its
\* character to the output buffer, advances pc by 2 and leaves the run-state
\* Continue; BufferedOutput is returned only by a step that finds a non-Out
\* instruction about to run, and it carries the whole buffer, i.e. the
\* characters of all the Outs executed since the buffer was last emptied.
C3_OutputBatched ==
    [][ IsRunOnce =>
        /\ ( /\ StepKind(Self) = "executed"
             /\ Decoded(Self).op = "Out"
             /\ FetchOk(Self, Decoded(Self).a)
             /\ IsChar(fetch_val(Self, Decoded(Self).a)) )
           => /\ output_buffer' = Append(output_buffer, fetch_val(Self, Decoded(Self).a))
              /\ pc' = pc + 2
              /\ run_state' = Continue
              /\ UNCHANGED <<memory, memory_len, stack, input_buffer>>
              /\ ~panicked'
        /\ run_state'.tag = "BufferedOutput"
           => /\ StepKind(Self) = "flushed"
              /\ Decoded(Self).op # "Out"
              /\ run_state'.text = output_buffer
              /\ Len(output_buffer) > 0 ]_vars

\* Three consecutive Outs were executed and their characters came back
\* together, in order, in one BufferedOutput.
C3_Witness ==
    /\ last.op = "run_once"
    /\ last.kind = "flushed"
    /\ run_state = BufferedOutput(<<65, 65, 66>>)
    /\ output_buffer = <<>>

\* C4: the In protocol.  In executed with an empty input queue sets the
\* run-state to InuptNeeded and changes neither pc, memory nor stack; while the
\* queue stays empty a further step returns InuptNeeded and changes nothing;
\* once push_input has supplied a character, the next step executes that same
\* In: it writes the code of the first queued character to memory[dst], removes
\* the character from the queue, advances pc by 2 and returns Continue.
C4_InProtocol ==
    [][ IsRunOnce =>
        /\ (StepKind(Self) = "executed" /\ Decoded(Self).op = "In" /\ input_buffer = <<>>)
           => /\ run_state' = InuptNeeded
              /\ UNCHANGED <<pc, memory, memory_len, stack, input_buffer, output_buffer>>
        /\ (run_state = InuptNeeded /\ input_buffer = <<>>)
           => /\ run_state' = InuptNeeded
              /\ UNCHANGED <<pc, memory, memory_len, stack, input_buffer, output_buffer>>
        /\ (run_state = InuptNeeded /\ input_buffer # <<>>)
           => /\ StepKind(Self) = "executed"
              /\ Decoded(Self).op = "In"
              /\ Decoded(Self).a < memory_len
                 => /\ memory' = MemSet(memory, Decoded(Self).a, Head(input_buffer))
                    /\ input_buffer' = Tail(input_buffer)
                    /\ pc' = pc + 2
                    /\ run_state' = Continue
                    /\ UNCHANGED <<memory_len, stack, output_buffer>> ]_vars

\* C4 with the character stored as the code does, `ch as u16`: the low 16 bits
\* of its code (the code itself for a character up to U+FFFF).
C4_InProtocolAsU16 ==
    [][ IsRunOnce =>
        /\ (StepKind(Self) = "executed" /\ Decoded(Self).op = "In" /\ input_buffer = <<>>)
           => /\ run_state' = InuptNeeded
              /\ UNCHANGED <<pc, memory, memory_len, stack, input_buffer, output_buffer>>
        /\ (run_state = InuptNeeded /\ input_buffer = <<>>)
           => /\ run_state' = InuptNeeded
              /\ UNCHANGED <<pc, memory, memory_len, stack, input_buffer, output_buffer>>
        /\ (run_state = InuptNeeded /\ input_buffer # <<>>)
           => /\ StepKind(Self) = "executed"
              /\ Decoded(Self).op = "In"
              /\ Decoded(Self).a < memory_len
                 => /\ memory' = MemSet(memory, Decoded(Self).a, Head(input_buffer) % U16_RANGE)
                    /\ input_buffer' = Tail(input_buffer)
                    /\ pc' = pc + 2
                    /\ run_state' = Continue
                    /\ UNCHANGED <<memory_len, stack, output_buffer>> ]_vars

\* C5: Ret executed with an empty stack sets the run-state to Halt (not Error)
\* and leaves pc, memory and stack unchanged.
C5_RetEmptyStackHalts ==
    [][ (IsRunOnce /\ StepKind(Self) = "executed" /\ Decoded(Self).op = "Ret" /\ stack = <<>>)
        => /\ run_state' = Halt
           /\ UNCHANGED <<pc, memory, memory_len, stack>>
           /\ ~panicked' ]_vars

\* run_once executed Ret on an empty stack.
C5_Witness ==
    /\ last.op = "run_once"
    /\ last.kind = "executed"
    /\ last.token.op = "Ret"
    /\ stack = <<>>
    /\ run_state = Halt

\* C6: Pop executed with an empty stack sets the run-state to Error (not Halt)
\* and leaves pc, memory (the destination cell included) and stack unchanged.
C6_PopEmptyStackErrors ==
    [][ (IsRunOnce /\ StepKind(Self) = "executed" /\ Decoded(Self).op = "Pop" /\ stack = <<>>)
        => /\ run_state'.tag = "Error"
           /\ UNCHANGED <<pc, memory, memory_len, stack>>
           /\ ~panicked' ]_vars

\* run_once executed Pop on an empty stack, with a register set before.
C6_Witness ==
    /\ last.op = "run_once"
    /\ last.kind = "executed"
    /\ last.token.op = "Pop"
    /\ stack = <<>>
    /\ run_state.tag = "Error"
    /\ MemGet(memory, R(1)) = 32767

\* The registers, as Machine::registers lists them.
Registers == { R(i) : i \in 0..(NUM_REGISTERS - 1) }

\* C7: for a register address r and a literal v below U15_MAX, executing
\* Set r v makes register r hold v (a read of r yields v), leaves the other
\* seven registers unchanged and advances pc by 3.
C7_SetRegister ==
    [][ ( /\ IsRunOnce
          /\ StepKind(Self) = "executed"
          /\ Decoded(Self).op = "Set"
          /\ Decoded(Self).a \in Registers
          /\ Decoded(Self).b < U15_MAX )
        => /\ MemGet(memory', Decoded(Self).a) = Decoded(Self).b
           /\ fetch_val(Self', Decoded(Self).a) = Decoded(Self).b
           /\ \A r \in Registers \ {Decoded(Self).a} : MemGet(memory', r) = MemGet(memory, r)
           /\ pc' = pc + 3
           /\ run_state' = Continue
           /\ ~panicked' ]_vars

\* run_once executed Set r7 32767 while register 1 held a value of its own.
C7_Witness ==
    /\ last.op = "run_once"
    /\ last.kind = "executed"
    /\ last.token = Tok("Set", R(7), 32767, 0)
    /\ MemGet(memory, R(7)) = 32767
    /\ MemGet(memory, R(1)) = 32767
    /\ MemGet(memory, R(0)) = 0

\* C8: Set whose destination word is outside the register addresses (below
\* REGISTER_OFFSET, or at or above REGISTER_OFFSET + NUM_REGISTERS) produces
\* the run-state Error and writes nothing: memory, the registers and pc are as
\* before the step.
C8_SetOutsideRegistersErrors ==
    [][ ( /\ IsRunOnce
          /\ StepKind(Self) = "executed"
          /\ Decoded(Self).op = "Set"
          /\ Decoded(Self).a \notin Registers )
        => /\ run_state'.tag = "Error"
           /\ UNCHANGED <<pc, memory, memory_len, stack>>
           /\ ~panicked' ]_vars

\* run_once executed Set with the destination one past the last register.
C8_Witness ==
    /\ last.op = "run_once"
    /\ last.kind = "executed"
    /\ last.token.op = "Set"
    /\ last.token.a = REGISTER_OFFSET + NUM_REGISTERS
    /\ run_state.tag = "Error"
    /\ MemGet(memory, R(1)) = 32767

\* C9: for resolved operands a, b below U15_MAX, Add stores (a + b) mod U15_MAX
\* and Mult stores (a * b) mod U15_MAX in memory[dst]; the exact sum or product
\* fits the 32 bits it is computed in (the step does not panic).
C9_AddMultModular ==
    [][ ( /\ IsRunOnce
          /\ StepKind(Self) = "executed"
          /\ Decoded(Self).op \in {"Add", "Mult"}
          /\ FetchOk(Self, Decoded(Self).b)
          /\ FetchOk(Self, Decoded(Self).c)
          /\ fetch_val(Self, Decoded(Self).b) < U15_MAX
          /\ fetch_val(Self, Decoded(Self).c) < U15_MAX
          /\ Decoded(Self).a < memory_len )
        => LET a == fetch_val(Self, Decoded(Self).b)
               b == fetch_val(Self, Decoded(Self).c)
               exact == IF Decoded(Self).op = "Add" THEN a + b ELSE a * b
           IN  /\ exact \div U16_RANGE < U16_RANGE
               /\ ~panicked'
               /\ memory' = MemSet(memory, Decoded(Self).a, exact % U15_MAX)
               /\ MemGet(memory', Decoded(Self).a) = exact % U15_MAX
               /\ pc' = pc + 4 ]_vars

\* run_once executed Mult r0 32767 r1 with 32767 in register 1: the product
\* 1073676289 reduces to 1.
C9_Witness ==
    /\ last.op = "run_once"
    /\ last.kind = "executed"
    /\ last.token = Tok("Mult", R(0), 32767, R(1))
    /\ MemGet(memory, R(1)) = 32767
    /\ MemGet(memory, R(0)) = 1

\* Bit i of x.
Bit(x, i) == (x \div (2 ^ i)) % 2

\* C10: for resolved operands a, b, v below U15_MAX, And stores the bitwise and
\* of a and b, Or the bitwise or of a and b, and Not the 15-bit complement of v,
\* (U15_MAX - 1) - v; each stored result is below U15_MAX.
C10_AndOrNotBitwise ==
    [][ ( /\ IsRunOnce
          /\ StepKind(Self) = "executed"
          /\ Decoded(Self).a < memory_len )
        => /\ ( /\ Decoded(Self).op \in {"And", "Or"}
                /\ FetchOk(Self, Decoded(Self).b)
                /\ FetchOk(Self, Decoded(Self).c)
                /\ fetch_val(Self, Decoded(Self).b) < U15_MAX
                /\ fetch_val(Self, Decoded(Self).c) < U15_MAX )
              => LET a == fetch_val(Self, Decoded(Self).b)
                     b == fetch_val(Self, Decoded(Self).c)
                     stored == MemGet(memory', Decoded(Self).a)
                 IN  /\ ~panicked'
                     /\ stored < U15_MAX
                     /\ \A i \in 0..(U16_BITS - 1) :
                           Bit(stored, i) =
                              IF Decoded(Self).op = "And"
                              THEN (IF Bit(a, i) = 1 /\ Bit(b, i) = 1 THEN 1 ELSE 0)
                              ELSE (IF Bit(a, i) = 1 \/ Bit(b, i) = 1 THEN 1 ELSE 0)
                     /\ memory' = MemSet(memory, Decoded(Self).a, stored)
           /\ ( /\ Decoded(Self).op = "Not"
                /\ FetchOk(Self, Decoded(Self).b)
                /\ fetch_val(Self, Decoded(Self).b) < U15_MAX )
              => LET v == fetch_val(Self, Decoded(Self).b)
                     stored == MemGet(memory', Decoded(Self).a)
                 IN  /\ ~panicked'
                     /\ stored < U15_MAX
                     /\ stored = (U15_MAX - 1) - v
                     /\ \A i \in 0..(U16_BITS - 2) : Bit(stored, i) = 1 - Bit(v, i)
                     /\ memory' = MemSet(memory, Decoded(Self).a, stored) ]_vars

\* run_once executed Not r0 21845: the 15-bit complement is 10922.
C10_Witness ==
    /\ last.op = "run_once"
    /\ last.kind = "executed"
    /\ last.token = Tok("Not", R(0), 21845, 0)
    /\ MemGet(memory, R(0)) = 10922
    /\ run_state = Continue

\* C11: whenever the run-state becomes Halt (by Halt or by Ret on an empty
\* stack) the output buffer is empty, and every character pushed by an earlier
\* Out has been handed to the driver.
C11_HaltWithEmptyBuffer ==
    [][ run_state'.tag = "Halt"
        => /\ output_buffer' = <<>>
           /\ delivered' = produced'
           /\ (run_state.tag # "Halt" => last'.token.op \in {"Halt", "Ret"}) ]_vars

\* run_once executed Halt after two characters were produced and handed out.
C11_Witness ==
    /\ last.op = "run_once"
    /\ last.kind = "executed"
    /\ last.token.op = "Halt"
    /\ run_state = Halt
    /\ produced = <<65, 65>>
    /\ delivered = <<65, 65>>

\* C12: whenever the run-state becomes Error (decode failure, illegal Set
\* target, Pop on an empty stack, unconvertible Out value, or Unknown opcode)
\* the output buffer is empty, and every character pushed by an earlier Out has
\* been handed to the driver.
C12_ErrorWithEmptyBuffer ==
    [][ run_state'.tag = "Error"
        => /\ output_buffer' = <<>>
           /\ delivered' = produced' ]_vars

\* C12 for the errors raised by an executed instruction other than Out
\* (illegal Set target, Pop on an empty stack, Unknown opcode): these are
\* preceded by the flush.
C12_ErrorByNonOutInstruction ==
    [][ ( /\ run_state'.tag = "Error"
          /\ last'.kind = "executed"
          /\ last'.token.op # "Out" )
        => /\ output_buffer' = <<>>
           /\ delivered' = produced' ]_vars

\* The words of `program` are in memory from address 0 on.
Loaded(program) == \A i \in 1..Len(program) : MemGet(memory, i - 1) = program[i]

\* The step is a call of run by the driver.
IsRun == last'.op = "run"

\* C13: two output runs separated by a non-Out instruction are never merged.
\* For the program of m > 0 Outs, a Noop and n > 0 Outs followed by zeros, the
\* first call of run returns BufferedOutput of the first m characters, the
\* second BufferedOutput of the next n characters, and a further one Halt.
C13_OutputRunsNotMerged ==
    [][ IsRun =>
        \A m \in 1..2, n \in 1..2 :
           LET first == SubSeq(<<72, 101>>, 1, m)
               second == SubSeq(<<87, 111>>, 1, n)
           IN  memory = VecOf(PrintMultiple(first, second))
               => /\ (pc = 0 /\ run_state = Continue /\ output_buffer = <<>>)
                     => /\ run_state' = BufferedOutput(first)
                        /\ pc' = 2 * m
                        /\ output_buffer' = <<>>
                  /\ (pc = 2 * m /\ run_state = BufferedOutput(first) /\ output_buffer = <<>>)
                     => /\ run_state' = BufferedOutput(second)
                        /\ pc' = 2 * m + 1 + 2 * n
                        /\ output_buffer' = <<>>
                  /\ (pc = 2 * m + 1 + 2 * n /\ run_state = BufferedOutput(second))
                     => /\ run_state' = Halt
                        /\ delivered' = first \o second
                  /\ ~panicked' ]_vars

\* The third call of run on the program with two Outs on each side of the Noop
\* returned Halt; "He" and "Wo" were handed out.
C13_Witness ==
    /\ memory = VecOf(PrintMultiple(<<72, 101>>, <<87, 111>>))
    /\ last.op = "run"
    /\ last.kind = "executed"
    /\ last.token.op = "Halt"
    /\ run_state = Halt
    /\ pc = 9
    /\ delivered = <<72, 101, 87, 111>>

\* C14: instructions placed after a Halt are never executed.  For the program
\* Set r0 65; Out r0; Halt; Add r0 r0 1; Out r0 the first run returns
\* BufferedOutput("A"), the next run returns Halt, register 0 is 65 in every
\* state from the Set onwards, and the output handed out over any number of
\* further steps is exactly "A".
C14_NothingAfterHalt ==
    [][ Loaded(AfterHalt) =>
        /\ Loaded(AfterHalt)'
        /\ (IsRun /\ pc = 0 /\ run_state = Continue /\ output_buffer = <<>>)
           => run_state' = BufferedOutput(<<65>>)
        /\ (IsRun /\ run_state = BufferedOutput(<<65>>)) => run_state' = Halt
        /\ pc' \in {0, 3, 5}
        /\ pc' >= 3 => MemGet(memory', R(0)) = 65
        /\ last'.token.op \notin {"Add"}
        /\ produced' \in {<<>>, <<65>>}
        /\ delivered' \o output_buffer' = produced'
        /\ run_state' = Halt => delivered' = <<65>>
        /\ run_state = Halt => (run_state' = Halt /\ delivered' = <<65>>)
        /\ ~panicked' ]_vars

\* A further call of run after the machine halted on that program: it is
\* still halted, register 0 is 65 and "A" is all that was handed out.
C14_Witness ==
    /\ Loaded(AfterHalt)
    /\ last.op = "run"
    /\ last.kind = "absorbed"
    /\ run_state = Halt
    /\ pc = 5
    /\ MemGet(memory, R(0)) = 65
    /\ delivered = <<65>>

\* C15: a program that ends with Out and no Halt still delivers its output and
\* then terminates, because memory past the program is zero (Halt).  For
\* Add r0 r1 k; Out r0 with registers initially zero, run returns
\* BufferedOutput of the character with code k, register 0 is k, and the
\* following run returns Halt.
C15_EndsWithOutThenHalts ==
    [][ IsRun =>
        \A k \in {4, 65} :
           Loaded(EndsWithOut(k))
           => /\ (pc = 0 /\ run_state = Continue /\ output_buffer = <<>>)
                 => /\ run_state' = BufferedOutput(<<k>>)
                    /\ MemGet(memory', R(0)) = k
                    /\ pc' = Len(EndsWithOut(k))
              /\ (pc = Len(EndsWithOut(k)) /\ run_state = BufferedOutput(<<k>>))
                 => /\ run_state' = Halt
                    /\ MemGet(memory', R(0)) = k
                    /\ delivered' = <<k>>
              /\ ~panicked' ]_vars

\* The second call of run on Add r0 r1 4; Out r0 returned Halt, executing the
\* zero after the program.
C15_Witness ==
    /\ Loaded(EndsWithOut(4))
    /\ last.op = "run"
    /\ last.kind = "executed"
    /\ last.token.op = "Halt"
    /\ run_state = Halt
    /\ pc = 6
    /\ MemGet(memory, R(0)) = 4
    /\ delivered = <<4>>

\* The variants of Token for the opcodes 0..21, in opcode order.
OpcodeNames ==
    <<"Halt", "Set", "Push", "Pop", "Eq", "Gt", "Jmp", "Jt", "Jf", "Add", "Mult",
      "Mod", "And", "Or", "Not", "Rmem", "Wmem", "Call", "Ret", "Out", "In", "Noop">>

\* C16: for every opcode 0..21, Token::parse on a slice that holds the opcode
\* and all its operands returns the instruction with its operands taken from
\* the following words in order, and its pc_delta is 1 plus its operand count
\* (Halt=1, Set=3, Push=2, Pop=2, Eq=4, Gt=4, Jmp=2, Jt=3, Jf=3, Add=4, Mult=4,
\* Mod=4, And=4, Or=4, Not=3, Rmem=3, Wmem=3, Call=2, Ret=1, Out=2, In=2,
\* Noop=1); parse returns no instruction exactly when the slice is empty or
\* shorter than that opcode's pc_delta.
C16_ParseAndPcDelta ==
    last.op = "parse" =>
       IF slice = <<>> THEN parsed = NoToken
       ELSE slice[1] \in HALT..NOOP =>
               LET words == <<1, 3, 2, 2, 4, 4, 2, 3, 3, 4, 4, 4, 4, 4, 3, 3, 3, 2, 1, 2, 2, 1>>
                   delta == words[slice[1] + 1]
                   operand(i) == IF i < delta THEN slice[i + 1] ELSE 0
               IN  IF Len(slice) < delta THEN parsed = NoToken
                   ELSE /\ parsed = Tok(OpcodeNames[slice[1] + 1],
                                        operand(1), operand(2), operand(3))
                        /\ parsed # NoToken
                        /\ pc_delta(parsed) = delta

\* parse was called on a slice holding Set and one of its two operands.
C16_Witness ==
    /\ last.op = "parse"
    /\ slice = <<SET, R(0)>>
    /\ parsed = NoToken

\* The machine after n successive calls of run_once on machine m.
RECURSIVE RunOnceTimes(_, _)
RunOnceTimes(m, n) == IF n = 0 THEN m ELSE run_once(RunOnceTimes(m, n - 1))

\* C17: run calls run_once repeatedly only while it returns Continue and stops
\* at the first other state: whenever run returns, the run-state is one of
\* BufferedOutput, InuptNeeded, Halt or Error (never Continue), and no
\* instruction was executed after the step that produced that state.
C17_RunStopsAtFirstOtherState ==
    [][ (IsRun /\ ~panicked') =>
        /\ run_state'.tag \in {"BufferedOutput", "InuptNeeded", "Halt", "Error"}
        /\ \E n \in 1..MaxRunCalls :
              /\ Self' = RunOnceTimes(Self, n)
              /\ \A k \in 1..(n - 1) :
                    /\ RunOnceTimes(Self, k).run_state = Continue
                    /\ ~RunOnceTimes(Self, k).panicked ]_vars

\* A call of run that made three calls of run_once: two Outs, then the flush
\* before the next instruction.
C17_Witness ==
    /\ last.op = "run"
    /\ last.kind = "flushed"
    /\ run_state = BufferedOutput(<<65, 65>>)
    /\ pc = 4
    /\ produced = <<65, 65>>
    /\ delivered = <<65, 65>>

\* C18: if the instruction at pc cannot be decoded (the words from pc to the
\* end of memory are fewer than the opcode needs, including pc at or past the
\* end of memory), run_once sets the run-state to Error and returns, without
\* changing memory, stack or pc.
C18_DecodeFailureErrors ==
    [][ (IsRunOnce /\ StepKind(Self) \in {"decode_failed", "panicked"})
        => /\ run_state'.tag = "Error"
           /\ UNCHANGED <<pc, memory, memory_len, stack>>
           /\ ~panicked' ]_vars

\* C18 for pc inside memory: a truncated instruction in the last cells gives
\* Error with memory, stack and pc unchanged.
C18_DecodeFailureInsideMemory ==
    [][ (IsRunOnce /\ StepKind(Self) = "decode_failed" /\ pc < memory_len)
        => /\ run_state' = Error("could not parse instruction", pc)
           /\ UNCHANGED <<pc, memory, memory_len, stack, input_buffer, output_buffer>>
           /\ ~panicked' ]_vars

\* C19: a word that is not an opcode in 0..21 decodes to Unknown carrying the
\* raw word (decoding does not fail, and its pc_delta is 1); it faults only
\* when executed: the step that executes it sets the run-state to Error and
\* leaves pc, memory and stack unchanged.
C19_UnknownFaultsWhenExecuted ==
    [][ ( /\ IsRunOnce
          /\ StepKind(Self) \notin {"absorbed", "blocked"}
          /\ pc < memory_len
          /\ MemGet(memory, pc) \notin HALT..NOOP )
        => /\ Decoded(Self) = Tok("Unknown", MemGet(memory, pc), 0, 0)
           /\ pc_delta(Decoded(Self)) = 1
           /\ StepKind(Self) \in {"flushed", "executed"}
           /\ StepKind(Self) = "flushed" => run_state'.tag = "BufferedOutput"
           /\ StepKind(Self) = "executed"
              => /\ run_state'.tag = "Error"
                 /\ UNCHANGED <<pc, memory, memory_len, stack, input_buffer, output_buffer>>
           /\ ~panicked' ]_vars

\* run_once executed the word 65535 that follows an Out, after the step that
\* handed the Out's character out.
C19_Witness ==
    /\ last.op = "run_once"
    /\ last.kind = "executed"
    /\ last.token = Tok("Unknown", 65535, 0, 0)
    /\ run_state.tag = "Error"
    /\ pc = 2
    /\ delivered = <<65>>

\* C20: an Out whose operand resolves to a value that is not a valid character
\* code (a register holding a value in 55296..57343) sets the run-state to
\* Error, appends nothing to the output buffer and does not advance pc.
C20_OutOfSurrogateErrors ==
    [][ ( /\ IsRunOnce
          /\ StepKind(Self) = "executed"
          /\ Decoded(Self).op = "Out"
          /\ Decoded(Self).a \in Registers
          /\ MemGet(memory, Decoded(Self).a) \in SURROGATE_LO..SURROGATE_HI )
        => /\ run_state'.tag = "Error"
           /\ UNCHANGED <<pc, output_buffer, memory, memory_len, stack, input_buffer>>
           /\ produced' = produced
           /\ ~panicked' ]_vars

\* run_once executed Out r0 with 55296 in register 0 while "A" was buffered.
C20_Witness ==
    /\ last.op = "run_once"
    /\ last.kind = "executed"
    /\ last.token = Tok("Out", R(0), 0, 0)
    /\ MemGet(memory, R(0)) = SURROGATE_LO
    /\ run_state.tag = "Error"
    /\ output_buffer = <<65>>
    /\ pc = 5

\* Instructions whose execution, when it neither fails nor panics, leaves the
\* run-state alone and moves pc to the next instruction.
Sequential ==
    {"Set", "Push", "Pop", "Eq", "Gt", "Add", "Mult", "Mod", "And", "Or", "Not",
     "Rmem", "Wmem", "Out", "Noop"}

\* C21: a call of run_once made in run-state BufferedOutput, or in InuptNeeded
\* with a non-empty input queue, resets the run-state to Continue and decodes
\* and executes the instruction at pc in that same call (it neither returns at
\* once nor hands out output); so run_once never returns BufferedOutput on two
\* consecutive calls, and never returns InuptNeeded from a call that started
\* with a non-empty input queue.
C21_ServicedStateExecutes ==
    [][ IsRunOnce =>
        /\ ( \/ run_state.tag = "BufferedOutput"
             \/ (run_state.tag = "InuptNeeded" /\ Len(input_buffer) > 0) )
           => /\ last'.kind \in {"executed", "decode_failed", "panicked"}
              /\ run_state'.tag # "BufferedOutput"
              /\ (last'.kind = "executed" /\ last'.token.op \in Sequential
                    /\ run_state'.tag # "Error" /\ ~panicked')
                 => /\ run_state' = Continue
                    /\ pc' = pc + pc_delta(last'.token)
              /\ (run_state.tag = "InuptNeeded" /\ ~panicked')
                 => /\ last'.token.op = "In"
                    /\ run_state' = Continue
                    /\ input_buffer' = Tail(input_buffer)
                    /\ pc' = pc + 2
        /\ Len(input_buffer) > 0 => run_state'.tag # "InuptNeeded" ]_vars

\* run_once, called in run-state BufferedOutput, executed the Noop the output
\* had been handed out before.
C21_Witness ==
    /\ last.op = "run_once"
    /\ last.from = "BufferedOutput"
    /\ last.kind = "executed"
    /\ last.token.op = "Noop"
    /\ run_state = Continue
    /\ delivered = <<65>>
    /\ pc = 3

\* run_once, called in run-state InuptNeeded after push_input, executed the In.
C21_WitnessInput ==
    /\ last.op = "run_once"
    /\ last.from = "InuptNeeded"
    /\ last.kind = "executed"
    /\ last.token.op = "In"
    /\ run_state = Continue
    /\ input_buffer = <<>>

\* C22: Machine::new(program), for a program of at most 32776 words, yields a
\* memory of exactly 32776 words whose first cells are the program and whose
\* other cells (the 8 registers included, when the program does not reach
\* them) are 0, with pc = 0, an empty stack, an empty input queue, an empty
\* output buffer and run-state Continue; and the length of memory is 32776
\* after any sequence of run_once, run, push_input and flush_output_buffer.
C22_MemoryOfNew ==
    /\ memory_len = 32776
    /\ last.op = "new"
       => /\ \E program \in Programs :
                /\ Len(program) <= 32776
                /\ Loaded(program)
                /\ \A i \in DOMAIN memory : i < Len(program)
                /\ \A r \in Registers : r >= Len(program) => MemGet(memory, r) = 0
          /\ pc = 0
          /\ stack = <<>>
          /\ input_buffer = <<>>
          /\ output_buffer = <<>>
          /\ run_state = Continue
          /\ ~panicked

\* After Push 7, Wmem 200 77 and a push_input the memory, written at 200, still
\* has its 32776 words.
C22_Witness ==
    /\ last.op = "push_input"
    /\ memory_len = 32776
    /\ MemGet(memory, 200) = 77
    /\ stack = <<7>>
    /\ Len(input_buffer) > 0

\* The files named replay_<number>, and their numbers.
IsNumbered(name) ==
    /\ Len(name) > Len(REPLAY_PREFIX)
    /\ SubSeq(name, 1, Len(REPLAY_PREFIX)) = REPLAY_PREFIX
    /\ \A i \in (Len(REPLAY_PREFIX) + 1)..Len(name) : IsDigit(name[i])

NumberOf(name) == DecimalValue(SubSeq(name, Len(REPLAY_PREFIX) + 1, Len(name)))

ReplayNumbers ==
    { NumberOf(e.name) : e \in { f \in replay_dir.entries : f.is_file /\ IsNumbered(f.name) } }

\* C23: after any sequence of sessions that each save their log to the path
\* returned by next_file_path, next_file_path returns replays/replay_N with N
\* one greater than the highest number among the existing replay_<number>
\* files (replays/replay_1 when there is none), so the name returned is never
\* that of an existing file.
C23_NextFilePathFresh ==
    last.op = "next_file_path"
    => /\ next_path = ReplayPath(IF ReplayNumbers = {} THEN 1
                                 ELSE (CHOOSE n \in ReplayNumbers :
                                          \A k \in ReplayNumbers : k <= n) + 1)
       /\ \A e \in replay_dir.entries : e.name # FileName(next_path)

\* C23 while every existing replay_<number> file has a number of one digit:
\* the order of the names is then the order of the numbers.
C23_FreshUpToNine ==
    (last.op = "next_file_path" /\ \A n \in ReplayNumbers : n <= 9)
    => /\ next_path = ReplayPath(IF ReplayNumbers = {} THEN 1
                                 ELSE (CHOOSE n \in ReplayNumbers :
                                          \A k \in ReplayNumbers : k <= n) + 1)
       /\ \A e \in replay_dir.entries : e.name # FileName(next_path)

\* next_file_path returned replays/replay_10 with replay_1 .. replay_9 saved.
C23_WitnessUpToNine ==
    /\ last.op = "next_file_path"
    /\ ReplayNumbers = 1..9
    /\ next_path = ReplayPath(10)

\* A Word: a value of 15 bits.
IsWord(v) == v \in 0..(U15_MAX - 1)

\* C24: for a loaded program whose words are all below 32776, in every
\* reachable state every register and every stack entry holds a Word, a value
\* in 0..32767, whatever instructions were executed and whatever input was
\* supplied.
C24_RegistersAndStackHoldWords ==
    (\A i \in 1..Len(loaded_program) : loaded_program[i] < 32776)
    => /\ \A r \in Registers : MemGet(memory, r) \in 0..32767
       /\ \A i \in 1..Len(stack) : stack[i] \in 0..32767

\* C24 for the values that instructions compute (Eq, Gt, Add, Mult, And, Or,
\* Not) or take from an operand literal: these are Words.  Values copied from
\* a memory cell or a register (Set, Push, Pop, Rmem, Wmem, Mod of them) and
\* characters read by In are stored as they are.
C24_ComputedValuesAreWords ==
    [][ ( /\ IsRunOnce
          /\ last'.kind = "executed"
          /\ last'.token.op \in {"Eq", "Gt", "Add", "Mult", "And", "Or", "Not"}
          /\ pc' # pc )
        => IsWord(MemGet(memory', last'.token.a)) ]_vars

\* The value of a read operand in the current state: the operand itself below
\* REGISTER_OFFSET, the content of the register otherwise.
Resolve(v) == IF v < 32768 THEN v ELSE MemGet(memory, v)

\* The instructions with a destination operand that is written raw.
RawDestination == {"Pop", "Eq", "Gt", "Add", "Mult", "Mod", "And", "Or", "Not", "Rmem", "In"}

\* C25: operand resolution applies to reads only.  A read operand below 32768
\* evaluates to itself and one in 32768..32775 to the content of that cell; an
\* instruction with a destination operand (Pop, Eq, Gt, Add, Mult, Mod, And,
\* Or, Not, Rmem, In) that completes writes exactly the cell memory[dst] for
\* the raw destination word dst, register or plain address alike, changes no
\* other memory cell and advances pc by its pc_delta.
C25_DestinationsAreRaw ==
    [][ ( /\ IsRunOnce
          /\ last'.kind = "executed"
          /\ last'.token.op \in RawDestination
          /\ last'.token.op = "In" => input_buffer # <<>>
          /\ run_state'.tag # "Error"
          /\ ~panicked' )
        => LET t == last'.token
               b == Resolve(t.b)
               c == Resolve(t.c)
           IN  /\ \A i \in (DOMAIN memory \cup DOMAIN memory') \ {t.a} :
                      MemGet(memory', i) = MemGet(memory, i)
               /\ memory_len' = memory_len
               /\ pc' = pc + pc_delta(t)
               /\ MemGet(memory', t.a) =
                      CASE t.op = "Pop" -> stack[Len(stack)]
                        [] t.op = "Eq" -> IF b = c THEN 1 ELSE 0
                        [] t.op = "Gt" -> IF b > c THEN 1 ELSE 0
                        [] t.op = "Add" -> (b + c) % 32768
                        [] t.op = "Mult" -> ((b % 32768) * (c % 32768)) % 32768
                        [] t.op = "Mod" -> b % c
                        [] t.op = "And" -> u16_and(b, c) % 32768
                        [] t.op = "Or" -> u16_or(b, c) % 32768
                        [] t.op = "Not" -> u16_not(b) % 32768
                        [] t.op = "Rmem" -> MemGet(memory, b)
                        [] t.op = "In" -> Head(input_buffer) % U16_RANGE ]_vars

\* run_once executed Gt 100 r1 1 with 32767 in register 1: the plain cell 100
\* holds 1 and register 1 is as it was.
C25_Witness ==
    /\ last.op = "run_once"
    /\ last.kind = "executed"
    /\ last.token = Tok("Gt", 100, R(1), 1)
    /\ MemGet(memory, 100) = 1
    /\ MemGet(memory, R(1)) = 32767
    /\ run_state = Continue

\* run_once executed Add r0 r1 21845 with 32767 in register 1: register 0
\* itself holds the sum modulo 32768.
C25_WitnessRegister ==
    /\ last.op = "run_once"
    /\ last.kind = "executed"
    /\ last.token = Tok("Add", R(0), R(1), 21845)
    /\ MemGet(memory, R(0)) = 21844
    /\ MemGet(memory, R(1)) = 32767

\* C26: Call at pc = p pushes p + 2, the address of the instruction after the
\* Call, and sets pc to the resolved target, leaving memory unchanged; Ret with
\* a non-empty stack pops the top entry into pc.  Hence a Call followed by a
\* Ret, with the stack in between never below and at the Ret exactly at its
\* height after the Call, resumes at p + 2 with the stack as before the Call.
C26_CallRet ==
    (~panicked /\ StepKind(Self) = "executed")
    => /\ (Decoded(Self).op = "Ret" /\ stack # <<>>)
          => /\ run_once(Self).pc = stack[Len(stack)]
             /\ run_once(Self).stack = SubSeq(stack, 1, Len(stack) - 1)
             /\ run_once(Self).memory = memory
             /\ run_once(Self).run_state = Continue
             /\ ~run_once(Self).panicked
       /\ (Decoded(Self).op = "Call" /\ ~run_once(Self).panicked)
          => LET called == run_once(Self)
                 inside(m) == /\ ~m.panicked
                              /\ m.run_state.tag \notin {"Halt", "Error"}
                              /\ Len(m.stack) > Len(stack)
             IN  /\ called.stack = Append(stack, pc + 2)
                 /\ called.pc = Resolve(Decoded(Self).a)
                 /\ called.memory = memory
                 /\ called.run_state = Continue
                 /\ \A n \in 0..MaxRunCalls :
                       LET at_ret == RunOnceTimes(called, n)
                       IN  ( /\ \A k \in 0..n : inside(RunOnceTimes(called, k))
                             /\ Len(at_ret.stack) = Len(stack) + 1
                             /\ StepKind(at_ret) = "executed"
                             /\ Decoded(at_ret).op = "Ret" )
                           => /\ run_once(at_ret).pc = pc + 2
                              /\ run_once(at_ret).stack = stack

\* The routine called at pc = 2 with 7 on the stack has returned: pc is 4, the
\* stack holds 7 again.
C26_Witness ==
    /\ Loaded(CallRet(<<PUSH, 7>>, <<NOOP>>))
    /\ last.op = "run_once"
    /\ last.kind = "executed"
    /\ last.token.op = "Ret"
    /\ pc = 4
    /\ stack = <<7>>
    /\ run_state = Continue

\* The instruction that lies k words after pc.
InstrAt(k) == Decoded([Self EXCEPT !.pc = pc + k])

\* C27: the stack is LIFO.  Push v appends resolve(v) on top and advances pc
\* by 2; Pop d on a non-empty stack removes the top entry, writes it to
\* memory[d] and advances pc by 2.  After Push v1 .. Push vn followed by n
\* Pops (to n distinct cells outside these instructions) the values popped are
\* resolve(vn), .., resolve(v1) in that order and the stack is as it was
\* before the first Push.
C27_StackLifo ==
    (~panicked /\ StepKind(Self) = "executed")
    => /\ (Decoded(Self).op = "Push" /\ ~run_once(Self).panicked)
          => /\ run_once(Self).stack = Append(stack, Resolve(Decoded(Self).a))
             /\ run_once(Self).pc = pc + 2
             /\ run_once(Self).memory = memory
             /\ run_once(Self).run_state = Continue
       /\ (Decoded(Self).op = "Pop" /\ stack # <<>> /\ ~run_once(Self).panicked)
          => /\ run_once(Self).stack = SubSeq(stack, 1, Len(stack) - 1)
             /\ MemGet(run_once(Self).memory, Decoded(Self).a) = stack[Len(stack)]
             /\ run_once(Self).pc = pc + 2
             /\ run_once(Self).run_state = Continue
       /\ \A n \in 1..(MaxStack + 1) :
             ( /\ \A i \in 0..(n - 1) :
                     /\ InstrAt(2 * i).op = "Push"
                     /\ InstrAt(2 * i).a < memory_len
                     /\ InstrAt(2 * (n + i)).op = "Pop"
                     /\ InstrAt(2 * (n + i)).a < memory_len
                     /\ InstrAt(2 * (n + i)).a \notin pc..(pc + 4 * n - 1)
               /\ Cardinality({ InstrAt(2 * (n + j)).a : j \in 0..(n - 1) }) = n )
             => LET popped == RunOnceTimes(Self, 2 * n)
                IN  /\ ~popped.panicked
                    /\ popped.stack = stack
                    /\ popped.pc = pc + 4 * n
                    /\ \A j \in 0..(n - 1) :
                          MemGet(popped.memory, InstrAt(2 * (n + j)).a)
                             = Resolve(InstrAt(2 * (n - 1 - j)).a)

\* Push r1; Push 5; Pop r2; Pop r3 with 300 in register 1 has run: register 2
\* holds 5, register 3 holds 300 and the stack is empty again.
C27_Witness ==
    /\ Loaded(PushPop)
    /\ last.op = "run_once"
    /\ last.kind = "executed"
    /\ last.token = Tok("Pop", R(3), 0, 0)
    /\ pc = 11
    /\ MemGet(memory, R(2)) = 5
    /\ MemGet(memory, R(3)) = 300
    /\ stack = <<>>

\* C28: control transfer.  Jmp sets pc to resolve(addr); Jt sets pc to
\* resolve(addr) when resolve(test) is not zero and otherwise advances pc by 3;
\* Jf sets pc to resolve(addr) when resolve(test) is zero and otherwise advances
\* pc by 3; none of the three changes memory, the stack, the buffers or the
\* run-state (Continue while an instruction executes).
C28_ControlTransfer ==
    [][ ( /\ IsRunOnce
          /\ last'.kind = "executed"
          /\ last'.token.op \in {"Jmp", "Jt", "Jf"}
          /\ ~panicked' )
        => LET t == last'.token
           IN  /\ t.op = "Jmp" => pc' = Resolve(t.a)
               /\ t.op = "Jt" => pc' = IF Resolve(t.a) # 0 THEN Resolve(t.b) ELSE pc + 3
               /\ t.op = "Jf" => pc' = IF Resolve(t.a) = 0 THEN Resolve(t.b) ELSE pc + 3
               /\ UNCHANGED <<memory, memory_len, stack, input_buffer, output_buffer>>
               /\ run_state' = Continue ]_vars

\* run_once executed Jf r1 12 with 32767 in register 1 and 7 on the stack: the
\* jump was not taken.
C28_Witness ==
    /\ last.op = "run_once"
    /\ last.kind = "executed"
    /\ last.token = Tok("Jf", R(1), 12, 0)
    /\ MemGet(memory, R(1)) = 32767
    /\ stack = <<7>>
    /\ pc = 8
    /\ run_state = Continue

\* run_once executed Jt 1 r1 with 32767 in register 1: pc is 32767.
C28_WitnessTaken ==
    /\ last.op = "run_once"
    /\ last.kind = "executed"
    /\ last.token = Tok("Jt", 1, R(1), 0)
    /\ pc = 32767

\* C29: Rmem dst src stores memory[resolve(src)] in the raw cell memory[dst],
\* and Wmem dst val stores resolve(val) in the cell memory[resolve(dst)] (the
\* destination of Wmem is resolved, that of Rmem is not); so Wmem a v followed
\* by Rmem c a, with a a literal address, leaves memory[c] equal to resolve(v).
C29_RmemWmem ==
    (~panicked /\ StepKind(Self) = "executed")
    => LET t == Decoded(Self)
           after == run_once(Self)
       IN  /\ (t.op = "Rmem" /\ ~after.panicked)
              => /\ MemGet(after.memory, t.a) = MemGet(memory, Resolve(t.b))
                 /\ \A i \in (DOMAIN memory \cup DOMAIN after.memory) \ {t.a} :
                        MemGet(after.memory, i) = MemGet(memory, i)
                 /\ after.pc = pc + 3
           /\ (t.op = "Wmem" /\ ~after.panicked)
              => /\ MemGet(after.memory, Resolve(t.a)) = Resolve(t.b)
                 /\ \A i \in (DOMAIN memory \cup DOMAIN after.memory) \ {Resolve(t.a)} :
                        MemGet(after.memory, i) = MemGet(memory, i)
                 /\ after.pc = pc + 3
                 /\ after.stack = stack
                 /\ after.run_state = Continue
                 /\ ( /\ t.a < 32768
                      /\ StepKind(after) = "executed"
                      /\ Decoded(after).op = "Rmem"
                      /\ Decoded(after).b = t.a
                      /\ ~run_once(after).panicked )
                    => MemGet(run_once(after).memory, Decoded(after).a) = Resolve(t.b)

\* Wmem 200 r1; Rmem r0 200 with 77 in register 1 has run: cell 200 and
\* register 0 hold 77.
C29_Witness ==
    /\ Loaded(WmemRmem)
    /\ last.op = "run_once"
    /\ last.kind = "executed"
    /\ last.token = Tok("Rmem", R(0), 200, 0)
    /\ MemGet(memory, 200) = 77
    /\ MemGet(memory, R(0)) = 77
    /\ pc = 9

\* run_once executed Wmem r1 77 with 32767 in register 1: cell 32767 holds 77
\* and register 1 is as it was.
C29_WitnessResolved ==
    /\ last.op = "run_once"
    /\ last.kind = "executed"
    /\ last.token = Tok("Wmem", R(1), 77, 0)
    /\ MemGet(memory, 32767) = 77
    /\ MemGet(memory, R(1)) = 32767

\* C30: no output is lost, duplicated or reordered: in every reachable state
\* the texts returned so far (in BufferedOutput values and by
\* flush_output_buffer), concatenated, followed by the content of the output
\* buffer are the characters of all the successfully executed Out
\* instructions, in execution order.
C30_OutputConserved ==
    [][ /\ delivered' \o output_buffer' = produced'
        /\ (IsStep /\ run_state'.tag = "BufferedOutput")
           => delivered' = delivered \o run_state'.text
        /\ (IsStep /\ run_state'.tag # "BufferedOutput") => delivered' = delivered
        /\ Len(produced') >= Len(produced)
        /\ SubSeq(produced', 1, Len(produced)) = produced ]_vars

\* "H" was handed out in a BufferedOutput and "W" is in the buffer: both Outs
\* are accounted for, in order.
C30_Witness ==
    /\ Loaded(PrintMultiple(<<72>>, <<87>>))
    /\ last.op = "run_once"
    /\ last.token.op = "Out"
    /\ produced = <<72, 87>>
    /\ delivered = <<72>>
    /\ output_buffer = <<87>>

\* C31: input is consumed first-in first-out and exactly once: after every
\* step the characters taken so far by executed In instructions, followed by
\* the content of the input queue, are the texts given to push_input in call
\* order; a step of the machine takes its characters from the front of the
\* queue and adds none, and push_input appends its text to the queue and
\* changes neither pc, memory, the stack, the output buffer nor the run-state.
C31_InputFifo ==
    [][ /\ consumed' \o input_buffer' = given'
        /\ IsStep => /\ given' = given
                     /\ Len(consumed') >= Len(consumed)
                     /\ SubSeq(consumed', 1, Len(consumed)) = consumed
        /\ last'.op = "push_input"
           => /\ UNCHANGED <<pc, memory, memory_len, stack, output_buffer, run_state>>
              /\ consumed' = consumed
              /\ \E input \in InputLines : /\ input_buffer' = input_buffer \o input
                                          /\ given' = given \o input ]_vars

\* "ab" was given, an In took "a", a second text was given while "b" was
\* waiting, and the second In took "b": the second text is what is left.
C31_Witness ==
    /\ Loaded(ReadTwo)
    /\ last.op = "run_once"
    /\ last.kind = "executed"
    /\ last.token.op = "In"
    /\ consumed = <<97, 98>>
    /\ input_buffer = <<128512>>
    /\ given = <<97, 98, 128512>>

\* C32: pending output is delivered before the engine asks for input:
\* whenever the run-state is InuptNeeded the output buffer is empty, every
\* character produced so far has been handed out, and the word at memory[pc]
\* is the In opcode; and a step that returns InuptNeeded leaves the input
\* queue empty and started with the output buffer empty and everything
\* already handed out, so the
\* BufferedOutput with the text of the Outs before the In was returned by an
\* earlier step.
C32_OutputBeforeInput ==
    [][ run_state'.tag = "InuptNeeded"
        => /\ output_buffer' = <<>>
           /\ delivered' = produced'
           /\ pc' < memory_len'
           /\ MemGet(memory', pc') = IN_
           /\ IsStep => /\ output_buffer = <<>>
                        /\ delivered = produced'
                        /\ run_state.tag \in {"Continue", "BufferedOutput", "InuptNeeded"}
                        /\ input_buffer' = <<>> ]_vars

\* Out 65; In r0 with nothing queued: the call after the one that returned
\* BufferedOutput("A") executed the In and returned InuptNeeded.
C32_Witness ==
    /\ Loaded(<<OUT, 65, IN_, R(0)>>)
    /\ run_state.tag = "InuptNeeded"
    /\ last.op = "run_once"
    /\ last.kind = "executed"
    /\ last.from = "BufferedOutput"
    /\ last.token.op = "In"
    /\ delivered = <<65>>
    /\ output_buffer = <<>>
    /\ input_buffer = <<>>

\* C33: run_once is total: from every reachable state of a machine, a call of
\* run_once completes and yields one of the five run-states; no instruction
\* makes the call abort: not Mod with a divisor that resolves to 0, not a write
\* to a raw destination at or above 32776, not Rmem from such an address, and
\* not a jump that sets pc at or above 32776.
C33_RunOnceTotal ==
    [][ IsRunOnce
        => /\ ~panicked'
           /\ run_state'.tag \in {"Continue", "Halt", "InuptNeeded", "BufferedOutput", "Error"}
       ]_vars

\* What does hold: a call of run_once that aborts does so with pc at or past
\* the end of memory, or in the instruction it executes: a Mod whose divisor
\* resolves to 0, an operand word at or above the length of memory (a
\* destination written, or a value read as a register), or an Rmem or Wmem
\* whose address resolves to such a word.
C33_AbortsOnlyBy ==
    [][ (IsRunOnce /\ panicked')
        => \/ pc >= memory_len
           \/ /\ last'.kind = "executed"
              /\ LET t == last'.token
                 IN  \/ t.op = "Mod" /\ Resolve(t.c) = 0
                     \/ \E w \in {t.a, t.b, t.c} : w >= memory_len
                     \/ t.op = "Rmem" /\ Resolve(t.b) >= memory_len
                     \/ t.op = "Wmem" /\ Resolve(t.a) >= memory_len ]_vars

\* run_once aborted in Mod r0 5 r2 with 0 in register 2.
C33_WitnessModZero ==
    /\ panicked
    /\ last.op = "run_once"
    /\ last.kind = "executed"
    /\ last.token = Tok("Mod", R(0), 5, R(2))
    /\ MemGet(memory, R(2)) = 0

\* run_once aborted in Pop 40000 with a value on the stack.
C33_WitnessDestination ==
    /\ panicked
    /\ last.op = "run_once"
    /\ last.kind = "executed"
    /\ last.token = Tok("Pop", 40000, 0, 0)

====
